---- MODULE Spec2Model ----
(***************************************************************************)
(* Model of the patent pipeline (scripts/01_get_patents.py and later       *)
(* stages): identity resolution, the chunked JSON store and the stage-1    *)
(* driver.                                                                 *)
(*                                                                         *)
(* Python values are records [t, s]: t is the type tag and s is str(value) *)
(* as a sequence of one-character strings.  A dict is a function from key  *)
(* strings to such values; a missing key is a key outside its DOMAIN.      *)
(***************************************************************************)
EXTENDS Integers, Sequences, FiniteSets, Bags, TLC

(***************************************************************************)
(* Bounds of the model.                                                    *)
(***************************************************************************)
\* largest chunk capacity the store specification draws
MaxCap == 3
\* longest record list handed to one append_patents call
MaxAppend == 5
\* most records the store specification ever holds
MaxTotal == 7
\* most CSV rows one behaviour of the stage-1 driver loads
MaxRows == 3
\* most runs of the stage-1 driver in one behaviour
MaxRuns == 2
\* CHUNK_SIZE (1000 in the script), scaled down
CHUNK_SIZE == 2
\* NUM_PROCESSES (7 in the script), scaled down
NUM_PROCESSES == 2
\* MAX_RETRIES
MAX_RETRIES == 3
\* RETRY_DELAY, seconds
RETRY_DELAY == 2

(***************************************************************************)
(* Python strings and values                                               *)
(***************************************************************************)
PyStr(s) == [t |-> "str", s |-> s]
EmptyStr == PyStr(<<>>)
\* a missing CSV cell as pandas delivers it: float('nan'), str() of it is "nan"
PyNaN == [t |-> "float", s |-> <<"n", "a", "n">>]
\* an integer cell: s holds its decimal digits
PyInt(digits) == [t |-> "int", s |-> digits]

\* bool(v)
Truthy(v) ==
  CASE v.t = "str" -> v.s # <<>>
    [] v.t = "int" -> v.s # <<"0">>
    [] OTHER -> TRUE

\* d.get(k, default)
Get(d, k, default) == IF k \in DOMAIN d THEN d[k] ELSE default

IsSpace(c) == c \in {" ", "\t", "\n"}

LowerToUpper ==
  [c \in {"a", "b", "c", "d", "e", "n", "p", "t", "u", "s", "x"} |->
     CASE c = "a" -> "A" [] c = "b" -> "B" [] c = "c" -> "C" [] c = "d" -> "D"
       [] c = "e" -> "E" [] c = "n" -> "N" [] c = "p" -> "P" [] c = "t" -> "T"
       [] c = "u" -> "U" [] c = "s" -> "S" [] c = "x" -> "X"]

\* mutant of UpperChar: the case is kept
UpperCharKeep(c) == c

\* str.upper(), one character
UpperChar(c) == IF c \in DOMAIN LowerToUpper THEN LowerToUpper[c] ELSE c

\* str.upper()
Upper(s) == [i \in 1..Len(s) |-> UpperChar(s[i])]

RECURSIVE LStrip(_)
LStrip(s) == IF s # <<>> /\ IsSpace(Head(s)) THEN LStrip(Tail(s)) ELSE s

RECURSIVE RStrip(_)
RStrip(s) ==
  IF s # <<>> /\ IsSpace(s[Len(s)]) THEN RStrip(SubSeq(s, 1, Len(s) - 1)) ELSE s

\* str.strip()
Strip(s) == RStrip(LStrip(s))

\* mutant of RemoveSpaceDash: only the first blank or hyphen is removed
RECURSIVE RemoveFirstSpaceDash(_)
RemoveFirstSpaceDash(s) ==
  IF s = <<>> THEN <<>>
  ELSE IF IsSpace(Head(s)) \/ Head(s) = "-" THEN Tail(s)
  ELSE <<Head(s)>> \o RemoveFirstSpaceDash(Tail(s))

\* re.sub(r"[\s-]", "", s)
RECURSIVE RemoveSpaceDash(_)
RemoveSpaceDash(s) ==
  IF s = <<>> THEN <<>>
  ELSE IF IsSpace(Head(s)) \/ Head(s) = "-" THEN RemoveSpaceDash(Tail(s))
  ELSE <<Head(s)>> \o RemoveSpaceDash(Tail(s))

\* normalize_id on the text of a str
normalize_id(pid) == RemoveSpaceDash(Upper(Strip(pid)))

\* the literal of the pattern r"/patent/([^/]+)/"
PatentLit == <<"/", "p", "a", "t", "e", "n", "t", "/">>

\* first index >= j holding "/", or 0
RECURSIVE NextSlash(_, _)
NextSlash(u, j) ==
  IF j > Len(u) THEN 0 ELSE IF u[j] = "/" THEN j ELSE NextSlash(u, j + 1)

\* the pattern matches with "/patent/" starting at i
MatchAt(u, i) ==
  /\ i + Len(PatentLit) - 1 <= Len(u)
  /\ SubSeq(u, i, i + Len(PatentLit) - 1) = PatentLit
  /\ NextSlash(u, i + Len(PatentLit)) > i + Len(PatentLit)

\* re.search: the leftmost match position, or 0
RECURSIVE SearchFrom(_, _)
SearchFrom(u, i) ==
  IF i > Len(u) THEN 0 ELSE IF MatchAt(u, i) THEN i ELSE SearchFrom(u, i + 1)

\* extract_patent_id on the text of a str
extract_patent_id_str(u) ==
  LET i == SearchFrom(u, 1)
  IN  IF i = 0 THEN <<>>
      ELSE Strip(SubSeq(u, i + Len(PatentLit), NextSlash(u, i + Len(PatentLit)) - 1))

\* result of a call that may raise: ok = FALSE is an exception
Ret(v) == [ok |-> TRUE, v |-> v]
Raised == [ok |-> FALSE, v |-> <<>>]

\* extract_patent_id(url) for any Python value
extract_patent_id(url) ==
  IF ~Truthy(url) THEN Ret(<<>>)
  ELSE IF url.t # "str" THEN Raised
  ELSE Ret(extract_patent_id_str(url.s))

\* normalize_id(pid) for any Python value: .strip() exists on str only
normalize_id_val(pid) == IF pid.t # "str" THEN Raised ELSE Ret(normalize_id(pid.s))

\* get_csv_patent_id(row)
get_csv_patent_id(row) ==
  LET raw == Get(row, "id", EmptyStr)
      pid == Strip(IF Truthy(raw) THEN raw.s ELSE <<>>)
      ex  == extract_patent_id(Get(row, "result link", EmptyStr))
  IN  IF pid # <<>> THEN Ret(normalize_id(pid))
      ELSE IF ~ex.ok THEN Raised
      ELSE IF ex.v # <<>> THEN Ret(normalize_id(ex.v))
      ELSE Ret(<<>>)

(***************************************************************************)
(* The output folder.  A file name is [n, isint, ext]: the text between    *)
(* "all_patents_" and the extension (an integer n when isint, otherwise a  *)
(* stem that int() rejects) and the extension.  A file is [valid, data]:   *)
(* valid says json.load succeeds, data is the list it returns.             *)
(***************************************************************************)
File(data) == [valid |-> TRUE, data |-> data]
\* what open(path, "w") leaves until the dump is complete, or a damaged file
PartialFile == [valid |-> FALSE, data |-> <<>>]

\* os.path.join(folder, OUTPUT_TEMPLATE.format(idx))
OutputPath(idx) == [n |-> idx, isint |-> TRUE, ext |-> "json"]

\* mutant of TmpPath: the dump goes straight to the chunk file
TmpPathInPlace(path) == path
\* path + ".tmp"
TmpPath(path) == [path EXCEPT !.ext = "json.tmp"]

\* open(path, "w") ... json.dump(...): the file holds `file`
WriteFile(dir, path, file) ==
  [p \in DOMAIN dir \cup {path} |-> IF p = path THEN file ELSE dir[p]]

\* os.replace(src, dst)
OsReplace(dir, src, dst) ==
  IF src = dst THEN dir
  ELSE [p \in (DOMAIN dir \cup {dst}) \ {src} |-> IF p = dst THEN dir[src] ELSE dir[p]]

RECURSIVE SortedIdx(_)
SortedIdx(S) ==
  IF S = {} THEN <<>>
  ELSE LET m == CHOOSE x \in S : \A y \in S : x <= y
       IN  <<m>> \o SortedIdx(S \ {m})

\* glob with the pattern "all_patents_*": every file of the folder
GlobAll(dir) == DOMAIN dir
\* glob "all_patents_*.json": the extension is exactly .json
GlobJson(dir) == {p \in DOMAIN dir : p.ext = "json"}

\* list_existing_json(folder): sorted (index, path) pairs
list_existing_json(dir) ==
  LET out == {p \in GlobJson(dir) : p.isint}
      idxs == SortedIdx({p.n : p \in out})
  IN  [k \in 1..Len(idxs) |->
         [idx |-> idxs[k], path |-> CHOOSE p \in out : p.n = idxs[k]]]

\* an entry of a chunk's list is a JSON object, read as a dict (the function
\* from its keys), or another JSON value (a tagged value), which has no .get
HasGet(entry) == ~({"t", "s"} \subseteq DOMAIN entry)

\* the keys one stored entry adds to `processed` (at most one), or an exception
EntryKey(entry) ==
  LET orig == Get(entry, "original_id", EmptyStr)
      u    == Get(entry, "url", EmptyStr)
      ex   == extract_patent_id(IF Truthy(u) THEN u ELSE EmptyStr)
      pid  == Get(entry, "id", EmptyStr)
  IN  IF ~HasGet(entry) THEN Raised
      ELSE IF Truthy(orig)
        THEN (IF normalize_id_val(orig).ok
                THEN Ret({normalize_id_val(orig).v}) ELSE Raised)
      ELSE IF ~ex.ok THEN Raised
      ELSE IF ex.v # <<>> THEN Ret({normalize_id(ex.v)})
      ELSE IF Truthy(pid)
        THEN (IF normalize_id_val(pid).ok
                THEN Ret({normalize_id_val(pid).v}) ELSE Raised)
      ELSE Ret({})

\* the inner loop of load_processed_ids over one file's list, from entry k on
RECURSIVE EntriesKeys(_, _)
EntriesKeys(arr, k) ==
  IF k > Len(arr) THEN Ret({})
  ELSE LET one == EntryKey(arr[k])
           more == EntriesKeys(arr, k + 1)
       IN  IF ~one.ok \/ ~more.ok THEN Raised ELSE Ret(one.v \cup more.v)

\* the outer loop of load_processed_ids, from file k of the listing on
RECURSIVE FilesKeys(_, _, _)
FilesKeys(dir, listing, k) ==
  IF k > Len(listing) THEN Ret({})
  ELSE LET f == dir[listing[k].path]
           one == IF f.valid THEN EntriesKeys(f.data, 1) ELSE Ret({})
           more == FilesKeys(dir, listing, k + 1)
       IN  IF ~one.ok \/ ~more.ok THEN Raised ELSE Ret(one.v \cup more.v)

\* load_processed_ids(folder)
load_processed_ids(dir) == FilesKeys(dir, list_existing_json(dir), 1)

(***************************************************************************)
(* append_patents, expression by expression                                *)
(***************************************************************************)
Min(a, b) == IF a <= b THEN a ELSE b

\* s[:k] for k >= 0
Take(s, k) == SubSeq(s, 1, Min(k, Len(s)))
\* s[k:] for k >= 0
Drop(s, k) == SubSeq(s, Min(k, Len(s)) + 1, Len(s))

\* mutant of ReturnsAtOnce: the early return is missing
ReturnsNever(new_list) == FALSE
\* the guard `if not new_list: return`
ReturnsAtOnce(new_list) == new_list = <<>>

\* mutant of NextIdx: the last index is taken again
NextIdxReuse(existing) ==
  IF existing # <<>> THEN existing[Len(existing)].idx ELSE 0
\* existing[-1][0]+1 if existing else 0
NextIdx(existing) ==
  IF existing # <<>> THEN existing[Len(existing)].idx + 1 ELSE 0

\* mutant of ReadContent: the old content of the last chunk is not kept
ReadContentEmpty(dir, last_file) == <<>>
\* json.load(last_file), [] when it raises
ReadContent(dir, last_file) ==
  IF dir[last_file].valid THEN dir[last_file].data ELSE <<>>

\* `if len(content) < chunk`
HasRoom(content, chunk) == Len(content) < chunk

\* mutant of Space: off by one
SpaceOneMore(content, chunk) == chunk - Len(content) + 1
\* space = chunk - len(content)
Space(content, chunk) == chunk - Len(content)

\* to_add = new_list[:space]
ToAdd(new_list, space) == Take(new_list, space)

\* mutant of Remainder: the first remaining record is skipped
RemainderSkipsOne(new_list, space) == Drop(new_list, space + 1)
\* new_list = new_list[space:]
Remainder(new_list, space) == Drop(new_list, space)

\* mutant of ChunkData: the slice is one short
ChunkDataShort(new_list, i, chunk) ==
  SubSeq(new_list, i + 1, Min(i + chunk - 1, Len(new_list)))
\* chunk_data = new_list[i:i+chunk]
ChunkData(new_list, i, chunk) == SubSeq(new_list, i + 1, Min(i + chunk, Len(new_list)))

\* write to path + ".tmp", then os.replace onto path
AtomicWrite(dir, path, data) ==
  OsReplace(WriteFile(dir, TmpPath(path), File(data)), TmpPath(path), path)

\* the loop `for i in range(0, len(new_list), chunk)` from offset i on
RECURSIVE WriteChunks(_, _, _, _, _)
WriteChunks(dir, new_list, i, next_idx, chunk) ==
  IF i >= Len(new_list) THEN dir
  ELSE WriteChunks(AtomicWrite(dir, OutputPath(next_idx), ChunkData(new_list, i, chunk)),
                   new_list, i + chunk, next_idx + 1, chunk)

\* append_patents(new_list, folder, chunk) run to completion: the folder after it
append_patents(dir, new_list, chunk) ==
  IF ReturnsAtOnce(new_list) THEN dir
  ELSE
    LET existing == list_existing_json(dir)
        last     == existing[Len(existing)]
        content  == ReadContent(dir, last.path)
        fill     == existing # <<>> /\ HasRoom(content, chunk)
        space    == Space(content, chunk)
        dir1     == IF fill
                      THEN AtomicWrite(dir, last.path, content \o ToAdd(new_list, space))
                      ELSE dir
        rest     == IF fill THEN Remainder(new_list, space) ELSE new_list
    IN  WriteChunks(dir1, rest, 0, NextIdx(existing), chunk)

(***************************************************************************)
(* State                                                                   *)
(***************************************************************************)
VARIABLES
  fs,       \* the output folder: file name -> file
  cap,      \* the `chunk` argument of every append_patents call of the behaviour
  ap,       \* the frame of the append_patents call in progress
  pre,      \* history: the folder when the latest call started
  arg,      \* history: the list the latest call was given
  written,  \* history: the paths the latest call has replaced, in order
  used,     \* how many records of the supply have been handed to append_patents
  dir0,     \* history: the folder of the initial state
  rows,     \* the rows of the CSV files, in load order (the same on every run)
  run,      \* number of the current run of main()
  mpc,      \* where main() is
  deduped,  \* main: deduped
  processed,\* main: processed
  new_rows, \* main: new_rows
  skipped,  \* main: skipped
  nextTask, \* pool: index in new_rows of the next row a worker takes
  inflight, \* pool: indices of the rows workers are processing
  buffer,   \* main: buffer
  done,     \* history: [row, rec] for every result delivered in this run
  fsAtLoad, \* history: the folder when load_processed_ids read it
  completed \* history: the previous run of main() reached its end

VARIABLES
  raw0,     \* resolver: the raw identifier the behaviour starts from
  raw,      \* resolver: raw0 rewritten in case, blanks and hyphens
  rrow,     \* resolver: the row get_csv_patent_id was called on
  rkey,     \* resolver: what the call returned (Ret) or that it raised
  row0,     \* resolver: the row built from raw0
  key0,     \* resolver: what get_csv_patent_id returned for row0
  rkey2,    \* resolver: the result for a row whose id cell holds rkey
  n1,       \* resolver: normalize_id(raw)
  n2,       \* resolver: normalize_id(n1)
  rpc       \* resolver: which calls have been made

resolveVars == <<raw0, raw, rrow, rkey, row0, key0, rkey2, n1, n2, rpc>>

VARIABLES
  ann,      \* annotator: which one is running
  rec,      \* annotator: its argument (a CSV row, or the text to annotate)
  attemptNo,\* annotator: the loop variable `attempt`
  calls,    \* history: how many times the network/API call was made
  outs,     \* history: what each of those calls did
  errs,     \* history: the description of each exception caught in the loop
  slept,    \* history: the durations of the sleeps, in order
  ret,      \* annotator: what it returned, or that it raised
  apc,      \* annotator: where it is
  shut      \* stage 4: shutdown_requested

retryVars == <<ann, rec, attemptNo, calls, outs, errs, slept, ret, apc, shut>>

VARIABLES
  stage,              \* orchestrator: which script runs ("stage2", "stage4", "stage5")
  records,            \* main: records, annotated in place by the tasks
  tasks,              \* main: tasks; the state of the task of each record
  shutdown_requested, \* the global flag handle_shutdown sets
  processed_count,    \* main: how many futures of as_completed it has awaited
  output_file,        \* the list written to the output file
  opc                 \* where main() is

orchVars == <<stage, records, tasks, shutdown_requested, processed_count,
              output_file, opc>>
VARIABLES
  script,      \* admission: which script runs ("stage2", "stage4", "stage5")
  semaphore,   \* asyncio.Semaphore: the permits that are free
  limiter,     \* AsyncLimiter: the level of the bucket
  taskBag,     \* the tasks: how many are at each place of each attempt
  window,      \* history: calls started in each of the last RATE_LIMIT ticks
  stopping,    \* shutdown_requested
  lateStart,   \* history: a call was started while shutdown_requested was set
  mainWake     \* stage 4: a finished task has woken main(), which has not run yet

admitVars == <<script, semaphore, limiter, taskBag, window, stopping,
               lateStart, mainWake>>
VARIABLES
  input_file,     \* stage 3: what the input path holds
  patents,        \* process_patents: patents
  patentNo,       \* process_patents: how many patents the loop has handled
  page_requests,  \* history: the requests of the latest _get_page_html call
  soup,           \* what the latest _get_page_html call returned
  results,        \* process_patents: results
  failed_patents, \* process_patents: failed_patents
  files3,         \* the files process_patents has written: name -> content
  fpc             \* where process_patents is

fetchVars == <<input_file, patents, patentNo, page_requests, soup, results,
               failed_patents, files3, fpc>>
VARIABLES
  istage,      \* input handling: which script runs ("stage2", "stage4", "stage5")
  input_path,  \* what INPUT_DIR (stage 2) or INPUT_FILE (stages 4, 5) holds
  fileNo,      \* stage 2: how many of json_files the loop has read
  loaded,      \* main: records
  error_log,   \* history: how many errors main() has logged
  annotations, \* history: how many process_patent tasks have run
  out_file,    \* the output file: whether it was written, and the list in it
  ipc          \* where main() is

inputVars == <<istage, input_path, fileNo, loaded, error_log, annotations, out_file,
               ipc>>
VARIABLES
  pstage,   \* response parsing: which script runs ("stage2", "stage4", "stage5")
  body,     \* the members of the JSON object the response is built from
  layout,   \* how the response presents the object, or what else it holds
  reply,    \* response.choices[0].message.content
  bareOut,  \* what the annotator returns when the content is the object alone
  replyOut, \* what the annotator returns for the content
  ppc       \* which of the two annotator calls have been made

parseVars == <<pstage, body, layout, reply, bareOut, replyOut, ppc>>
VARIABLES
  scanFolder,  \* key scan: the output folder as the run of stage 1 finds it
  outFolder,   \* the output folder now
  scanned,     \* what load_processed_ids returned, or that it raised
  flushed,     \* the buffer main() passed to append_patents
  scpc         \* where main() is

scanVars == <<scanFolder, outFolder, scanned, flushed, scpc>>
VARIABLES
  sections,   \* section parsing: what each section of the fetched page is like
  parsedOut,  \* what scrape_patent returned for the page
  sepc        \* whether scrape_patent has run

sectVars == <<sections, parsedOut, sepc>>
VARIABLES
  record,   \* the pipeline: one record on its way through the stages 2 to 5
  asPut,    \* history: every field ever on the record, with the value it was put with
  atStage   \* the stage that gets the record next

pipeVars == <<record, asPut, atStage>>
VARIABLES
  startMethod,  \* the processes of stage 1: how multiprocessing starts a worker
  procAt,       \* where each process is: the driver and the workers of the pool
  frameOf,      \* the append_patents call each process is in, if any
  jobs,         \* rows the pool has not handed to a worker yet
  outq,         \* results the workers have returned and main's loop has not taken
  held,         \* the buffer of each process that runs main()
  writes        \* history: which process wrote or renamed which file

writerVars == <<startMethod, procAt, frameOf, jobs, outq, held, writes>>
moreVars == <<scanVars, sectVars, pipeVars, writerVars>>
laterVars == <<admitVars, fetchVars, inputVars, parseVars, moreVars>>
stageVars == <<resolveVars, retryVars, orchVars, laterVars>>

storeVars == <<fs, cap, ap, pre, arg, written, used, dir0>>
driverVars == <<rows, run, mpc, deduped, processed, new_rows, skipped, nextTask,
                inflight, buffer, done, fsAtLoad, completed>>
\* what the actions of one specification leave alone
restOfResolve == <<storeVars, driverVars, retryVars, orchVars, laterVars>>
restOfRetry == <<storeVars, driverVars, resolveVars, orchVars, laterVars>>
restOfOrch == <<storeVars, driverVars, resolveVars, retryVars, laterVars>>
earlierVars == <<storeVars, driverVars, resolveVars, retryVars, orchVars>>
restOfAdmit == <<earlierVars, fetchVars, inputVars, parseVars, moreVars>>
restOfFetch == <<earlierVars, admitVars, inputVars, parseVars, moreVars>>
restOfInput == <<earlierVars, admitVars, fetchVars, parseVars, moreVars>>
restOfParse == <<earlierVars, admitVars, fetchVars, inputVars, moreVars>>
olderVars == <<earlierVars, admitVars, fetchVars, inputVars, parseVars>>
restOfScan == <<olderVars, sectVars, pipeVars, writerVars>>
restOfSect == <<olderVars, scanVars, pipeVars, writerVars>>
restOfPipe == <<olderVars, scanVars, sectVars, writerVars>>
restOfWriter == <<cap, ap, pre, arg, written, used, dir0, driverVars, resolveVars, retryVars,
                  orchVars, admitVars, fetchVars, inputVars, parseVars, scanVars, sectVars,
                  pipeVars>>

vars == <<fs, cap, ap, pre, arg, written, used, dir0, rows, run, mpc, deduped,
          processed, new_rows, skipped, nextTask, inflight, buffer, done, fsAtLoad,
          completed, stageVars>>

(***************************************************************************)
(* Records the store is given: the three shapes process_row returns.       *)
(***************************************************************************)
DigitChar == <<"0", "1", "2", "3", "4", "5", "6", "7", "8", "9">>

RECURSIVE Decimal(_)
Decimal(k) == IF k < 10 THEN <<DigitChar[k + 1]>>
              ELSE Decimal(k \div 10) \o <<DigitChar[(k % 10) + 1]>>

UrlOf(id) == <<"x">> \o PatentLit \o id \o <<"/", "e", "n">>

\* the k-th record of the supply; its key is "U<k>" whichever field carries it
Rec(k) ==
  LET key == <<"U">> \o Decimal(k)
  IN  CASE k % 3 = 1 ->
             [id |-> PyStr(key), url |-> PyStr(UrlOf(key)),
              csv_title |-> PyStr(<<"t">>),
              original_id |-> PyStr(<<"u", "-">> \o Decimal(k))]
        [] k % 3 = 2 ->
             [id |-> PyStr(key), url |-> PyStr(UrlOf(key)), error |-> PyStr(<<"e">>)]
        [] OTHER ->
             [id |-> PyStr(key), error |-> PyStr(<<"e">>)]

Supply(from, n) == [i \in 1..n |-> Rec(from + i - 1)]

EmptyDir == [p \in {} |-> PartialFile]

\* folders a run can find: empty, a partly filled chunk, a gap in the numbering,
\* a damaged last chunk, a leftover .tmp and a file whose stem is no integer
InitDirs ==
  { EmptyDir,
    OutputPath(0) :> File(Supply(1, 2)),
    OutputPath(0) :> File(Supply(1, 1)) @@ OutputPath(2) :> File(Supply(2, 1)),
    OutputPath(0) :> File(Supply(1, 2)) @@ OutputPath(1) :> PartialFile,
    OutputPath(0) :> File(Supply(1, 1)) @@ TmpPath(OutputPath(0)) :> PartialFile
       @@ [n |-> 7, isint |-> FALSE, ext |-> "json"] :> File(Supply(2, 1)) }

\* the driver's variables while only the store is exercised
DriverIdle ==
  /\ rows = <<>>
  /\ run = 0
  /\ mpc = "off"
  /\ deduped = <<>>
  /\ processed = {}
  /\ new_rows = <<>>
  /\ skipped = 0
  /\ nextTask = 1
  /\ inflight = {}
  /\ buffer = <<>>
  /\ done = <<>>
  /\ fsAtLoad = EmptyDir
  /\ completed = FALSE

IdleFrame ==
  [pc |-> "idle", new_list |-> <<>>, space |-> 0, next_idx |-> 0, i |-> 0,
   target |-> OutputPath(0), data |-> <<>>]

\* no resolver call has been made
ResolveIdle ==
  /\ raw0 = <<>>
  /\ raw = <<>>
  /\ rrow = <<>>
  /\ rkey = Ret(<<>>)
  /\ row0 = <<>>
  /\ key0 = Ret(<<>>)
  /\ rkey2 = Ret(<<>>)
  /\ n1 = <<>>
  /\ n2 = <<>>
  /\ rpc = "off"

\* no annotator is running
RetryIdle ==
  /\ ann = "off"
  /\ rec = <<>>
  /\ attemptNo = 0
  /\ calls = 0
  /\ outs = <<>>
  /\ errs = <<>>
  /\ slept = <<>>
  /\ ret = [kind |-> "none", v |-> <<>>]
  /\ apc = "off"
  /\ shut = FALSE

\* no orchestrator of the stages 2, 4 and 5 is running
OrchIdle ==
  /\ stage = "off"
  /\ records = <<>>
  /\ tasks = <<>>
  /\ shutdown_requested = FALSE
  /\ processed_count = 0
  /\ output_file = <<>>
  /\ opc = "off"

\* no task of the stages 2, 4 and 5 asks for admission
AdmitIdle ==
  /\ script = "off"
  /\ semaphore = 0
  /\ limiter = 0
  /\ taskBag = <<>>
  /\ window = <<>>
  /\ stopping = FALSE
  /\ lateStart = FALSE
  /\ mainWake = FALSE

\* the later stages and the stand-alone calls are not exercised
\* process_patents of stage 3 is not running
FetchIdle ==
  /\ input_file = <<>>
  /\ patents = <<>>
  /\ patentNo = 0
  /\ page_requests = <<>>
  /\ soup = <<>>
  /\ results = <<>>
  /\ failed_patents = <<>>
  /\ files3 = <<>>
  /\ fpc = "off"

\* no main() of the stages 2, 4 and 5 is looking at its input
InputIdle ==
  /\ istage = "off"
  /\ input_path = <<>>
  /\ fileNo = 0
  /\ loaded = <<>>
  /\ error_log = 0
  /\ annotations = 0
  /\ out_file = <<>>
  /\ ipc = "off"

\* no response of the LLM is being parsed
ParseIdle ==
  /\ pstage = "off"
  /\ body = <<>>
  /\ layout = "off"
  /\ reply = <<>>
  /\ bareOut = <<>>
  /\ replyOut = <<>>
  /\ ppc = "off"

\* no key scan is running
ScanIdle ==
  /\ scanFolder = <<>>
  /\ outFolder = <<>>
  /\ scanned = <<>>
  /\ flushed = <<>>
  /\ scpc = "off"

\* no page is being parsed
SectIdle ==
  /\ sections = <<>>
  /\ parsedOut = <<>>
  /\ sepc = "off"

\* no record is on its way through the stages
PipeIdle ==
  /\ record = <<>>
  /\ asPut = <<>>
  /\ atStage = "off"

\* no process of stage 1 has been started
WriterIdle ==
  /\ startMethod = "off"
  /\ procAt = <<>>
  /\ frameOf = <<>>
  /\ jobs = 0
  /\ outq = <<>>
  /\ held = <<>>
  /\ writes = {}

MoreIdle == ScanIdle /\ SectIdle /\ PipeIdle /\ WriterIdle

\* the specifications of the admission control, the response parser and the
\* page fetch are not exercised
LaterIdle == AdmitIdle /\ FetchIdle /\ InputIdle /\ ParseIdle /\ MoreIdle

StagesIdle == ResolveIdle /\ RetryIdle /\ OrchIdle /\ LaterIdle

\* the store is an empty folder and no append_patents call is made
StoreIdle ==
  /\ fs = EmptyDir
  /\ cap = CHUNK_SIZE
  /\ ap = IdleFrame
  /\ pre = EmptyDir
  /\ arg = <<>>
  /\ written = <<>>
  /\ used = 0
  /\ dir0 = EmptyDir

\* the head of `for i in range(0, len(new_list), chunk)`: the next chunk, or return
LoopFrame(new_list, i, next_idx) ==
  IF i < Len(new_list)
    THEN [pc |-> "new_open", new_list |-> new_list, space |-> 0, next_idx |-> next_idx,
          i |-> i, target |-> OutputPath(next_idx),
          data |-> ChunkData(new_list, i, cap)]
    ELSE [IdleFrame EXCEPT !.pc = "done"]

InitStore ==
  /\ fs \in InitDirs
  /\ cap \in 1..MaxCap
  /\ ap = IdleFrame
  /\ pre = fs
  /\ arg = <<>>
  /\ written = <<>>
  /\ used \in (IF fs = EmptyDir THEN {0} ELSE {0, 2})
  /\ dir0 = fs
  /\ DriverIdle
  /\ StagesIdle

(***************************************************************************)
(* append_patents step by step; the process can be killed between steps    *)
(***************************************************************************)
\* lines 207-224: the call, up to the first write
AppendCall(n) ==
  /\ ap.pc \in {"idle", "done"}
  /\ used + n <= MaxTotal
  /\ LET new_list == Supply(used + 1, n)
         existing == list_existing_json(fs)
         last     == existing[Len(existing)]
         content  == ReadContent(fs, last.path)
     IN  /\ arg' = new_list
         /\ ap' = IF ReturnsAtOnce(new_list) THEN [IdleFrame EXCEPT !.pc = "done"]
                  ELSE IF existing # <<>> /\ HasRoom(content, cap)
                    THEN [pc |-> "fill_open", new_list |-> new_list,
                          space |-> Space(content, cap),
                          next_idx |-> NextIdx(existing), i |-> 0,
                          target |-> last.path,
                          data |-> content \o ToAdd(new_list, Space(content, cap))]
                  ELSE LoopFrame(new_list, 0, NextIdx(existing))
  /\ pre' = fs
  /\ written' = <<>>
  /\ used' = used + n
  /\ UNCHANGED <<fs, cap, dir0, driverVars, stageVars>>

\* line 226 / 238: open(tmp, "w") creates or truncates the temporary file
OpenTmp(at, to) ==
  /\ ap.pc = at
  /\ fs' = WriteFile(fs, TmpPath(ap.target), PartialFile)
  /\ ap' = [ap EXCEPT !.pc = to]
  /\ UNCHANGED <<cap, pre, arg, written, used, dir0, driverVars, stageVars>>

\* line 227 / 239: json.dump completes and the file is closed
DumpTmp(at, to) ==
  /\ ap.pc = at
  /\ fs' = WriteFile(fs, TmpPath(ap.target), File(ap.data))
  /\ ap' = [ap EXCEPT !.pc = to]
  /\ UNCHANGED <<cap, pre, arg, written, used, dir0, driverVars, stageVars>>

FillOpen == OpenTmp("fill_open", "fill_dump")
FillDump == DumpTmp("fill_dump", "fill_replace")

\* lines 228-231, then the loop head
FillReplace ==
  /\ ap.pc = "fill_replace"
  /\ fs' = OsReplace(fs, TmpPath(ap.target), ap.target)
  /\ written' = Append(written, ap.target)
  /\ ap' = LoopFrame(Remainder(ap.new_list, ap.space), 0, ap.target.n + 1)
  /\ UNCHANGED <<cap, pre, arg, used, dir0, driverVars, stageVars>>

NewOpen == OpenTmp("new_open", "new_dump")
NewDump == DumpTmp("new_dump", "new_replace")

\* lines 240-242, then the loop head
NewReplace ==
  /\ ap.pc = "new_replace"
  /\ fs' = OsReplace(fs, TmpPath(ap.target), ap.target)
  /\ written' = Append(written, ap.target)
  /\ ap' = LoopFrame(ap.new_list, ap.i + cap, ap.next_idx + 1)
  /\ UNCHANGED <<cap, pre, arg, used, dir0, driverVars, stageVars>>

\* the process is killed inside append_patents: its frame is gone, the files stay
Kill ==
  /\ ap.pc \notin {"idle", "done"}
  /\ ap' = IdleFrame
  /\ UNCHANGED <<fs, cap, pre, arg, written, used, dir0, driverVars, stageVars>>

NextStore ==
  \/ \E n \in 0..MaxAppend : AppendCall(n)
  \/ FillOpen
  \/ FillDump
  \/ FillReplace
  \/ NewOpen
  \/ NewDump
  \/ NewReplace
  \/ Kill

SpecStore == InitStore /\ [][NextStore]_vars

\* sanity: a call that runs to its return leaves the folder append_patents computes
StepwiseAgrees == ap.pc = "done" => fs = append_patents(pre, arg, cap)

(***************************************************************************)
(* Claims about the chunked store, checked under SpecStore                 *)
(***************************************************************************)
\* the listing of a folder and the lists of its chunks
Listing(dir) == list_existing_json(dir)
LastOf(dir) == Listing(dir)[Len(Listing(dir))]
DataOf(dir, path) == dir[path].data

\* C1: starting from an empty folder, every chunk but the highest-indexed one
\* holds exactly cap records and no chunk holds more than cap
C1_FullExceptLast ==
  dir0 = EmptyDir =>
    \A k \in 1..Len(Listing(fs)) :
      LET f == fs[Listing(fs)[k].path]
      IN  /\ f.valid
          /\ Len(f.data) <= cap
          /\ (k < Len(Listing(fs)) => Len(f.data) = cap)

\* a later call filled the last chunk and added chunks, the last one not full
C1_Witness ==
  /\ dir0 = EmptyDir
  /\ ap.pc = "done"
  /\ Len(Listing(fs)) >= 3
  /\ Len(written) >= 2
  /\ written[1] \in DOMAIN pre
  /\ Len(DataOf(fs, LastOf(fs).path)) < cap

\* C2: whenever the process is killed, and at every moment a reader looks, each
\* file under a chunk name holds its complete content from before the call or
\* its complete content after the call
C2_OldOrNew ==
  \A p \in GlobJson(fs) :
    \/ p \in DOMAIN pre /\ fs[p] = pre[p]
    \/ LET post == append_patents(pre, arg, cap)
       IN  p \in DOMAIN post /\ fs[p] = post[p]

\* killed between the dump of a new chunk's .tmp and its os.replace, after the
\* last chunk had been replaced
C2_Witness ==
  /\ ap.pc = "idle"
  /\ written # <<>>
  /\ \E p \in DOMAIN fs :
       /\ p.ext = "json.tmp"
       /\ fs[p].valid
       /\ [p EXCEPT !.ext = "json"] \notin DOMAIN fs

KeysOfList(list) == EntriesKeys(list, 1).v
KeysOfDir(dir) == load_processed_ids(dir).v

\* the records of the call have pairwise distinct keys, none in the store yet
NewDistinctKeys ==
  /\ \A k \in 1..Len(arg) : Cardinality(EntryKey(arg[k]).v) = 1
  /\ Cardinality(KeysOfList(arg)) = Len(arg)
  /\ KeysOfList(arg) \cap KeysOfDir(pre) = {}

\* C3: load_processed_ids after appending N records with new, pairwise distinct
\* keys is the union of load_processed_ids before and the N keys
C3_KeysUnion ==
  (ap.pc = "done" /\ NewDistinctKeys) =>
    /\ load_processed_ids(fs).ok
    /\ KeysOfDir(fs) = KeysOfDir(pre) \cup KeysOfList(arg)
    /\ Cardinality(KeysOfDir(fs)) = Cardinality(KeysOfDir(pre)) + Len(arg)

C3_Witness ==
  /\ ap.pc = "done"
  /\ NewDistinctKeys
  /\ Len(arg) >= 3
  /\ KeysOfDir(pre) # {}
  /\ Len(written) >= 2

\* ceil(a / b)
CeilDiv(a, b) == (a + b - 1) \div b

\* C5: the last chunk is filled up to cap first, the rest goes to new chunks of
\* cap records each, the final one possibly smaller; with cap 3, a last chunk of
\* 2 and 5 records: sizes 3, 3, 1 and exactly three files written
C5_FillThenSplit ==
  (ap.pc = "done" /\ arg # <<>> /\ Listing(pre) # <<>>
     /\ pre[LastOf(pre).path].valid /\ Len(DataOf(pre, LastOf(pre).path)) < cap) =>
    LET last == LastOf(pre)
        old  == DataOf(pre, last.path)
        room == cap - Len(old)
        rest == IF Len(arg) > room THEN Len(arg) - room ELSE 0
        new  == CeilDiv(rest, cap)
    IN  /\ DataOf(fs, last.path) = old \o Take(arg, room)
        /\ Len(written) = 1 + new
        /\ written[1] = last.path
        /\ \A j \in 1..new :
             /\ written[1 + j] = OutputPath(last.idx + j)
             /\ Len(DataOf(fs, OutputPath(last.idx + j))) =
                  (IF j < new THEN cap ELSE rest - (new - 1) * cap)
        /\ (cap = 3 /\ Len(old) = 2 /\ Len(arg) = 5) =>
             /\ Len(DataOf(fs, last.path)) = 3
             /\ Len(DataOf(fs, OutputPath(last.idx + 1))) = 3
             /\ Len(DataOf(fs, OutputPath(last.idx + 2))) = 1
             /\ Len(written) = 3

C5_Witness ==
  /\ ap.pc = "done"
  /\ cap = 3
  /\ Len(arg) = 5
  /\ Listing(pre) # <<>>
  /\ pre[LastOf(pre).path].valid
  /\ Len(DataOf(pre, LastOf(pre).path)) = 2
  /\ Len(written) = 3

\* the chunks of a folder read in ascending index order and concatenated
RECURSIVE ConcatFrom(_, _, _)
ConcatFrom(dir, listing, k) ==
  IF k > Len(listing) THEN <<>>
  ELSE (IF dir[listing[k].path].valid THEN dir[listing[k].path].data ELSE <<>>)
         \o ConcatFrom(dir, listing, k + 1)

Concat(dir) == ConcatFrom(dir, Listing(dir), 1)

\* C6: after the call the concatenation of all chunks is the concatenation from
\* before the call followed by the records in the order given
C6_ConcatPreserved == ap.pc = "done" => Concat(fs) = Concat(pre) \o arg

C6_Witness ==
  /\ ap.pc = "done"
  /\ Len(Concat(pre)) >= 2
  /\ Len(arg) >= 3
  /\ Len(written) >= 2
  /\ written[1] \in DOMAIN pre

\* C7: a call writes only the last existing chunk (when it has room) and new
\* chunks whose indices increase strictly and exceed every existing index;
\* every other existing chunk file is unchanged
C7_WritesOnlyLastAndNew ==
  /\ \A p \in GlobJson(pre) :
       (Listing(pre) = <<>> \/ p # LastOf(pre).path) => p \in DOMAIN fs /\ fs[p] = pre[p]
  /\ \A p \in GlobJson(fs) : (p \notin DOMAIN pre \/ fs[p] # pre[p]) =>
       \E k \in 1..Len(written) : written[k] = p
  /\ \A k \in 1..Len(written) :
       \/ /\ k = 1
          /\ Listing(pre) # <<>>
          /\ written[k] = LastOf(pre).path
          /\ ~pre[LastOf(pre).path].valid \/ Len(DataOf(pre, LastOf(pre).path)) < cap
       \/ /\ written[k].isint
          /\ written[k] \notin DOMAIN pre
          /\ \A e \in 1..Len(Listing(pre)) : written[k].n > Listing(pre)[e].idx
  /\ \A k \in 1..Len(written) - 1 : written[k].n < written[k + 1].n

\* a folder with two chunks, the last one full: only new chunks are written
C7_Witness ==
  /\ ap.pc = "done"
  /\ Len(Listing(pre)) >= 2
  /\ Len(written) >= 2
  /\ written[1] \notin DOMAIN pre

\* C8: a call with an empty list changes nothing in the folder
C8_EmptyIsNoOp ==
  (ap.pc = "done" /\ arg = <<>>) => fs = pre /\ written = <<>>

\* the call was made on a folder whose last chunk has room
C8_Witness ==
  /\ ap.pc = "done"
  /\ arg = <<>>
  /\ Listing(fs) # <<>>
  /\ Len(DataOf(fs, LastOf(fs).path)) < cap

(***************************************************************************)
(* Stage 1: process_row and main()                                         *)
(***************************************************************************)
Blank == <<" ", " ">>
NoPatternUrl == <<"x", "/", "s", "/", "U", "9">>

\* CSV rows as df.to_dict(orient="records") delivers them.  A file without an
\* id column gives rows without the key; an empty cell is NaN.
\* the "result link" column of a row
Link(v) == "result link" :> v

RowPool ==
  << \* explicit id, written with lower case and a hyphen
     [id |-> PyStr(<<"u", "-", "1">>), title |-> PyStr(<<"a">>)] @@ Link(PyStr(UrlOf(<<"U", "1">>))),
     \* the same patent again, another title
     [id |-> PyStr(<<"U", "1">>), title |-> PyStr(<<"b">>)] @@ Link(PyStr(UrlOf(<<"U", "1">>))),
     \* no id column: the key comes from the link
     [title |-> PyStr(<<"c">>)] @@ Link(PyStr(UrlOf(<<"U", "2">>))),
     \* explicit id that names the patent of the row above, link to another one
     [id |-> PyStr(<<"U", "2">>), title |-> PyStr(<<"d">>)] @@ Link(PyStr(UrlOf(<<"U", "3">>))),
     \* id present, link blank
     [id |-> PyStr(<<"U", "4">>), title |-> PyStr(<<"e">>)] @@ Link(PyStr(Blank)),
     \* id cell empty (NaN)
     [id |-> PyNaN, title |-> PyStr(<<"f">>)] @@ Link(PyStr(UrlOf(<<"U", "5">>))),
     \* nothing resolvable
     [title |-> PyStr(<<"g">>)] @@ Link(PyStr(NoPatternUrl)),
     \* id present, link cell empty (NaN)
     [id |-> PyStr(<<"U", "6">>), title |-> PyStr(<<"h">>)] @@ Link(PyNaN),
     \* id cell holds blanks only
     [id |-> PyStr(Blank), title |-> PyStr(<<"i">>)] @@ Link(PyStr(UrlOf(<<"U", "7">>))),
     \* no id column, link cell empty (NaN)
     [title |-> PyStr(<<"j">>)] @@ Link(PyNaN) >>

\* the rows of RowPool at the positions of S, in pool order
RECURSIVE PickRows(_, _)
PickRows(S, k) ==
  IF k > Len(RowPool) THEN <<>>
  ELSE (IF k \in S THEN <<RowPool[k]>> ELSE <<>>) \o PickRows(S, k + 1)

RowInputs ==
  {PickRows(S, 1) : S \in {T \in SUBSET (1..Len(RowPool)) : Cardinality(T) <= MaxRows}}

\* what scraper.get_scraped_data returns, before main's fields are set
ScrapedData == [abstract_text |-> PyStr(<<"s">>)]

ErrorText == PyStr(<<"e">>)

\* delay = RETRY_DELAY * (2 ** (attempt-1))
RetryDelay(attempt) == RETRY_DELAY * (2 ^ (attempt - 1))

\* one pass of the try block of process_row: the record, or an exception
TryScrape(row, pid, url, outcome) ==
  LET nid == normalize_id_val(Get(row, "id", PyStr(pid)))
  IN  IF outcome # "Success" THEN Raised
      ELSE IF ~nid.ok THEN Raised
      ELSE Ret([id |-> PyStr(nid.v), url |-> PyStr(url),
                csv_title |-> Get(row, "title", EmptyStr),
                original_id |-> Get(row, "id", EmptyStr)] @@ ScrapedData)

\* the retry loop of process_row from `attempt` on; outcomes[a] is what the
\* scraper does on attempt a
RECURSIVE RetryLoop(_, _, _, _, _, _)
RetryLoop(row, pid, url, outcomes, attempt, sleeps) ==
  LET try == TryScrape(row, pid, url, outcomes[attempt])
  IN  IF try.ok
        THEN [raised |-> FALSE, rec |-> try.v, calls |-> attempt, sleeps |-> sleeps]
      ELSE IF attempt < MAX_RETRIES
        THEN RetryLoop(row, pid, url, outcomes, attempt + 1,
                       Append(sleeps, RetryDelay(attempt)))
      ELSE [raised |-> FALSE,
            rec |-> [id |-> PyStr(pid), url |-> PyStr(url), error |-> ErrorText],
            calls |-> attempt, sleeps |-> sleeps]

RaisedRow == [raised |-> TRUE, rec |-> [id |-> EmptyStr], calls |-> 0, sleeps |-> <<>>]

\* process_row(row): [raised, rec, calls, sleeps]
process_row(row, outcomes) ==
  LET pid  == get_csv_patent_id(row)
      link == Get(row, "result link", EmptyStr)
      url  == Strip(link.s)
  IN  IF ~pid.ok \/ link.t # "str" THEN RaisedRow
      ELSE IF url = <<>> \/ pid.v = <<>>
        THEN [raised |-> FALSE,
              rec |-> [id |-> PyStr(pid.v), error |-> PyStr(<<"m">>)],
              calls |-> 0, sleeps |-> <<>>]
      ELSE RetryLoop(row, pid.v, url, outcomes, 1, <<>>)

\* what the scraper does on attempts 1..MAX_RETRIES when its first `fails` calls
\* fail; the loop never looks past the first success
OutcomesFor(fails) ==
  [a \in 1..MAX_RETRIES |-> IF a <= fails THEN "Fail" ELSE "Success"]

Outcomes == {OutcomesFor(fails) : fails \in 0..MAX_RETRIES}

HasKey(unique, pid) == \E k \in 1..Len(unique) : unique[k].key = pid

\* mutant of DedupeStep: a later row with the same key replaces the earlier one
DedupeStepLastWins(unique, pid, r) ==
  IF pid = <<>> THEN unique
  ELSE IF HasKey(unique, pid)
    THEN [k \in 1..Len(unique) |->
            IF unique[k].key = pid THEN [key |-> pid, row |-> r] ELSE unique[k]]
  ELSE Append(unique, [key |-> pid, row |-> r])

\* `if pid and pid not in unique: unique[pid] = r`
DedupeStep(unique, pid, r) ==
  IF pid # <<>> /\ ~HasKey(unique, pid)
    THEN Append(unique, [key |-> pid, row |-> r])
    ELSE unique

\* the loop `for r in all_rows` of step 2: the dict `unique`, or an exception
RECURSIVE DedupeLoop(_, _, _)
DedupeLoop(all_rows, k, unique) ==
  IF k > Len(all_rows) THEN Ret(unique)
  ELSE LET pid == get_csv_patent_id(all_rows[k])
       IN  IF ~pid.ok THEN Raised
           ELSE DedupeLoop(all_rows, k + 1, DedupeStep(unique, pid.v, all_rows[k]))

\* mutant of IsNew: the processed set is not consulted
IsNewAlways(pid, proc) == pid # <<>>

\* `if pid and pid not in processed`
IsNew(pid, proc) == pid # <<>> /\ pid \notin proc

\* step 4: new_rows
RECURSIVE FilterNew(_, _, _)
FilterNew(rs, k, proc) ==
  IF k > Len(rs) THEN <<>>
  ELSE (IF IsNew(get_csv_patent_id(rs[k]).v, proc) THEN <<rs[k]>> ELSE <<>>)
         \o FilterNew(rs, k + 1, proc)

InitDriver ==
  /\ fs = EmptyDir
  /\ cap = CHUNK_SIZE
  /\ ap = IdleFrame
  /\ pre = fs
  /\ arg = <<>>
  /\ written = <<>>
  /\ used = 0
  /\ dir0 = fs
  /\ rows \in RowInputs
  /\ run = 1
  /\ mpc = "start"
  /\ deduped = <<>>
  /\ processed = {}
  /\ new_rows = <<>>
  /\ skipped = 0
  /\ nextTask = 1
  /\ inflight = {}
  /\ buffer = <<>>
  /\ done = <<>>
  /\ fsAtLoad = EmptyDir
  /\ completed = FALSE
  /\ StagesIdle

\* main, steps 1 and 2: load the rows and dedupe them
Dedupe ==
  /\ mpc = "start"
  /\ LET u == DedupeLoop(rows, 1, <<>>)
     IN  IF u.ok
           THEN /\ deduped' = [k \in 1..Len(u.v) |-> u.v[k].row]
                /\ mpc' = "deduped"
           ELSE /\ mpc' = "crashed"
                /\ UNCHANGED deduped
  /\ UNCHANGED <<stageVars, storeVars, rows, run, processed, new_rows, skipped, nextTask,
                 inflight, buffer, done, fsAtLoad, completed>>

\* main, steps 3 and 4: load the processed ids and keep the new rows
Filter ==
  /\ mpc = "deduped"
  /\ fsAtLoad' = fs
  /\ LET p == load_processed_ids(fs)
     IN  IF p.ok
           THEN /\ processed' = p.v
                /\ new_rows' = FilterNew(deduped, 1, p.v)
                /\ skipped' = Len(deduped) - Len(FilterNew(deduped, 1, p.v))
                /\ mpc' = IF FilterNew(deduped, 1, p.v) # <<>> THEN "pool" ELSE "finished"
           ELSE /\ mpc' = "crashed"
                /\ UNCHANGED <<processed, new_rows, skipped>>
  /\ UNCHANGED <<stageVars, storeVars, rows, run, deduped, nextTask, inflight, buffer, done,
                 completed>>

\* a free worker of the pool takes the next row
TakeRow ==
  /\ mpc = "pool"
  /\ nextTask <= Len(new_rows)
  /\ Cardinality(inflight) < NUM_PROCESSES
  /\ inflight' = inflight \cup {nextTask}
  /\ nextTask' = nextTask + 1
  /\ UNCHANGED <<stageVars, storeVars, rows, run, mpc, deduped, processed, new_rows, skipped,
                 buffer, done, fsAtLoad, completed>>

\* a worker finishes process_row and main's loop body handles the result
Deliver(k, outcomes) ==
  /\ mpc = "pool"
  /\ k \in inflight
  /\ LET res  == process_row(new_rows[k], outcomes)
         buf  == Append(buffer, res.rec)
         last == nextTask > Len(new_rows) /\ inflight = {k}
     IN  IF res.raised
           THEN /\ mpc' = "crashed"
                /\ buffer' = <<>>
                /\ inflight' = {}
                /\ UNCHANGED <<fs, done>>
           ELSE /\ done' = Append(done, [row |-> new_rows[k], rec |-> res.rec])
                /\ inflight' = inflight \ {k}
                /\ mpc' = IF last THEN "flush" ELSE "pool"
                /\ IF Len(buf) >= CHUNK_SIZE
                     THEN /\ fs' = append_patents(fs, buf, CHUNK_SIZE)
                          /\ buffer' = <<>>
                     ELSE /\ buffer' = buf
                          /\ UNCHANGED fs
  /\ UNCHANGED <<stageVars, cap, ap, pre, arg, written, used, dir0, rows, run, deduped,
                 processed, new_rows, skipped, nextTask, fsAtLoad, completed>>

\* the final flush after the pool loop
FinalFlush ==
  /\ mpc = "flush"
  /\ fs' = IF buffer # <<>> THEN append_patents(fs, buffer, CHUNK_SIZE) ELSE fs
  /\ buffer' = <<>>
  /\ mpc' = "finished"
  /\ UNCHANGED <<stageVars, cap, ap, pre, arg, written, used, dir0, rows, run, deduped,
                 processed, new_rows, skipped, nextTask, inflight, done, fsAtLoad,
                 completed>>

\* the script is started again on the same CSV files
RunAgain ==
  /\ mpc \in {"finished", "crashed"}
  /\ run < MaxRuns
  /\ run' = run + 1
  /\ mpc' = "start"
  /\ deduped' = <<>>
  /\ processed' = {}
  /\ new_rows' = <<>>
  /\ skipped' = 0
  /\ nextTask' = 1
  /\ inflight' = {}
  /\ buffer' = <<>>
  /\ done' = <<>>
  /\ completed' = (mpc = "finished")
  /\ UNCHANGED <<stageVars, storeVars, rows, fsAtLoad>>

Next ==
  \/ Dedupe
  \/ Filter
  \/ TakeRow
  \/ \E k \in 1..MaxRows, o \in Outcomes : Deliver(k, o)
  \/ FinalFlush
  \/ RunAgain

Spec == InitDriver /\ [][Next]_vars

(***************************************************************************)
(* Claims about the stage-1 driver, checked under Spec                     *)
(***************************************************************************)
RowKey(r) == get_csv_patent_id(r).v

AfterDedupe == mpc \in {"deduped", "pool", "flush", "finished"}
AfterFilter == mpc \in {"pool", "flush", "finished"}

\* C4: the key load_processed_ids derives from the record process_row returned
\* for a row is get_csv_patent_id(row), so a run after a completed run on the
\* same CSV input submits no row
C4_KeyReproducible ==
  /\ \A k \in 1..Len(done) : EntryKey(done[k].rec) = Ret({RowKey(done[k].row)})
  /\ (run >= 2 /\ completed /\ AfterFilter) => new_rows = <<>>

\* positions of the rows that are the first, in load order, with their key
FirstIdx ==
  LET key == [i \in 1..Len(rows) |-> RowKey(rows[i])]
  IN  {i \in 1..Len(rows) : key[i] # <<>> /\ \A j \in 1..(i - 1) : key[j] # key[i]}

\* C9: deduped holds, for every resolved key, exactly the first row in load
\* order with that key, and no other row
C9_FirstWins ==
  AfterDedupe =>
    LET first == SortedIdx(FirstIdx)
    IN  deduped = [k \in 1..Len(first) |-> rows[first[k]]]

\* two different rows with one key were loaded, and more than one key
C9_Witness ==
  /\ mpc = "deduped"
  /\ Len(deduped) >= 2
  /\ \E i, j \in 1..Len(rows) :
       i < j /\ RowKey(rows[i]) # <<>> /\ RowKey(rows[i]) = RowKey(rows[j])
         /\ rows[i] # rows[j]

\* C10: only rows whose key is non-empty and not among the keys of the folder
\* as load_processed_ids found it are handed to the pool
C10_OnlyNewSubmitted ==
  /\ new_rows # <<>> =>
       LET stored == KeysOfDir(fsAtLoad)
       IN  /\ processed = stored
           /\ \A k \in 1..Len(new_rows) :
                /\ RowKey(new_rows[k]) # <<>>
                /\ RowKey(new_rows[k]) \notin stored
  /\ inflight \subseteq 1..Len(new_rows)
  /\ nextTask <= Len(new_rows) + 1
  /\ \A k \in 1..Len(done) : \E n \in 1..Len(new_rows) : done[k].row = new_rows[n]

\* a second run: a row of the CSV is already in the folder and is left out,
\* another one is being scraped
C10_Witness ==
  /\ run = 2
  /\ mpc = "pool"
  /\ inflight # {}
  /\ \E k \in 1..Len(deduped) : RowKey(deduped[k]) \in KeysOfDir(fsAtLoad)
  /\ \E k \in 1..Len(rows) : RowKey(rows[k]) = <<>>

\* number of loaded rows whose key is empty
EmptyKeyRows == Cardinality({i \in 1..Len(rows) : RowKey(rows[i]) = <<>>})

\* C11: a row with an empty key is never handed to the pool, and once the
\* filter loop is over the driver's count `skipped` includes every such row
C11_EmptyKeyCounted ==
  /\ \A k \in 1..Len(new_rows) : RowKey(new_rows[k]) # <<>>
  /\ AfterFilter => skipped >= EmptyKeyRows

(***************************************************************************)
(* The identity functions on their own: get_csv_patent_id and normalize_id *)
(* applied to rows built from a raw identifier and its rewritings          *)
(***************************************************************************)
\* longest raw identifier the resolver specification builds
MaxRaw == 4

\* the raw identifiers a behaviour starts from
BaseIds == {<<>>, <<"u">>, <<"u", "1">>, <<"E", "u">>}

\* the identifier in the link of a row whose id cell holds another one
OtherId == <<"U", "9">>

\* the shapes of a CSV row around a raw identifier s
RowShapes ==
  {"id", "link", "both", "blankid", "nanid", "intid", "nanlink", "idnanlink",
   "nopattern", "intlink", "none"}

RowOf(shape, s) ==
  CASE shape = "id"        -> [id |-> PyStr(s)]
    [] shape = "link"      -> Link(PyStr(UrlOf(s)))
    [] shape = "both"      -> [id |-> PyStr(s)] @@ Link(PyStr(UrlOf(OtherId)))
    [] shape = "blankid"   -> [id |-> PyStr(Blank)] @@ Link(PyStr(UrlOf(s)))
    [] shape = "nanid"     -> [id |-> PyNaN] @@ Link(PyStr(UrlOf(s)))
    [] shape = "intid"     -> [id |-> PyInt(<<"7">>)] @@ Link(PyStr(UrlOf(s)))
    [] shape = "nanlink"   -> Link(PyNaN)
    [] shape = "idnanlink" -> [id |-> PyStr(s)] @@ Link(PyNaN)
    [] shape = "nopattern" -> Link(PyStr(NoPatternUrl))
    [] shape = "intlink"   -> Link(PyInt(<<"7">>))
    [] OTHER               -> <<>>

\* the other case of a letter
SwapCase(c) ==
  IF c \in DOMAIN LowerToUpper THEN LowerToUpper[c]
  ELSE IF \E l \in DOMAIN LowerToUpper : LowerToUpper[l] = c
    THEN CHOOSE l \in DOMAIN LowerToUpper : LowerToUpper[l] = c
  ELSE c

InitResolve ==
  /\ StoreIdle
  /\ DriverIdle
  /\ LaterIdle
  /\ RetryIdle
  /\ OrchIdle
  /\ raw0 \in BaseIds
  /\ raw = raw0
  /\ rrow = <<>>
  /\ rkey = Ret(<<>>)
  /\ row0 = <<>>
  /\ key0 = Ret(<<>>)
  /\ rkey2 = Ret(<<>>)
  /\ n1 = <<>>
  /\ n2 = <<>>
  /\ rpc = "edit"

\* the letter at position i is written in the other case
FlipCase(i) ==
  /\ rpc = "edit"
  /\ i \in 1..Len(raw)
  /\ SwapCase(raw[i]) # raw[i]
  /\ raw' = [raw EXCEPT ![i] = SwapCase(raw[i])]
  /\ UNCHANGED <<restOfResolve, raw0, rrow, rkey, row0, key0, rkey2, n1, n2, rpc>>

\* a blank or a hyphen is written before position i
InsertSep(i, c) ==
  /\ rpc = "edit"
  /\ Len(raw) < MaxRaw
  /\ i \in 1..(Len(raw) + 1)
  /\ raw' = SubSeq(raw, 1, i - 1) \o <<c>> \o SubSeq(raw, i, Len(raw))
  /\ UNCHANGED <<restOfResolve, raw0, rrow, rkey, row0, key0, rkey2, n1, n2, rpc>>

\* normalize_id(raw)
Normalize ==
  /\ rpc = "edit"
  /\ n1' = normalize_id(raw)
  /\ rpc' = "normalized"
  /\ UNCHANGED <<restOfResolve, raw0, raw, rrow, rkey, row0, key0, rkey2, n2>>

\* normalize_id of the result
NormalizeAgain ==
  /\ rpc = "normalized"
  /\ n2' = normalize_id(n1)
  /\ rpc' = "renormalized"
  /\ UNCHANGED <<restOfResolve, raw0, raw, rrow, rkey, row0, key0, rkey2, n1>>

\* get_csv_patent_id on a row around raw, and on a row around raw0
Resolve(shape, shape0) ==
  /\ rpc = "edit"
  /\ rrow' = RowOf(shape, raw)
  /\ rkey' = get_csv_patent_id(RowOf(shape, raw))
  /\ row0' = RowOf(shape0, raw0)
  /\ key0' = get_csv_patent_id(RowOf(shape0, raw0))
  /\ rpc' = "resolved"
  /\ UNCHANGED <<restOfResolve, raw0, raw, rkey2, n1, n2>>

\* get_csv_patent_id on a record whose id field holds the key just returned
ReResolve ==
  /\ rpc = "resolved"
  /\ rkey.ok
  /\ rkey2' = get_csv_patent_id([id |-> PyStr(rkey.v)])
  /\ rpc' = "reresolved"
  /\ UNCHANGED <<restOfResolve, raw0, raw, rrow, rkey, row0, key0, n1, n2>>

NextResolve ==
  \/ \E i \in 1..MaxRaw : FlipCase(i)
  \/ \E i \in 1..MaxRaw, c \in {" ", "-"} : InsertSep(i, c)
  \/ Normalize
  \/ NormalizeAgain
  \/ \E shape \in RowShapes, shape0 \in {"id", "link"} : Resolve(shape, shape0)
  \/ ReResolve

SpecResolve == InitResolve /\ [][NextResolve]_vars

(***************************************************************************)
(* Claims about the identity functions, checked under SpecResolve          *)
(***************************************************************************)
\* the id cell holds a value (not the missing-value marker) that is not blank
IdPresent(row) ==
  "id" \in DOMAIN row /\ row["id"] # PyNaN /\ Strip(row["id"].s) # <<>>

\* the identifier between /patent/ and the next slash of the link, "" without one
LinkId(row) ==
  LET l == Get(row, "result link", EmptyStr)
  IN  IF l.t = "str" THEN extract_patent_id_str(l.s) ELSE <<>>

\* C12: the key get_csv_patent_id returns is the normalized id cell when that
\* cell is present and not blank, otherwise the normalized identifier of the
\* link, and the empty string when neither gives a value
C12_Priority ==
  (rpc = "resolved" /\ rkey.ok) =>
    rkey.v = IF IdPresent(rrow) THEN normalize_id(rrow["id"].s)
             ELSE normalize_id(LinkId(rrow))

\* C13: normalize_id applied to its own result returns that result, and a
\* record whose id field holds a key resolves to that key
C13_Idempotent ==
  /\ rpc = "renormalized" => n2 = n1
  /\ (rpc = "reresolved" /\ rkey.v # <<>>) => rkey2 = rkey

\* a raw identifier that normalization shortened has been normalized twice
C13_Witness ==
  /\ rpc = "renormalized"
  /\ n1 # <<>>
  /\ Len(n1) < Len(raw)
  /\ \E i \in 1..Len(raw) : raw[i] = "-"

\* C14: a raw identifier and any rewriting of it in letter case, blanks and
\* hyphens resolve to the same key, from the id cell or from the link
C14_Insensitive ==
  (rpc = "resolved" /\ rrow \in {RowOf("id", raw), RowOf("link", raw)}) =>
    rkey = key0

\* "u1" in the id cell of one row, a rewriting with another case, a blank and
\* a hyphen in the link of the other
C14_Witness ==
  /\ rpc = "resolved"
  /\ raw0 = <<"u", "1">>
  /\ row0 = RowOf("id", raw0)
  /\ rrow = RowOf("link", raw)
  /\ \E i, j, k \in 1..Len(raw) : raw[i] = "U" /\ raw[j] = " " /\ raw[k] = "-"
  /\ rkey = Ret(<<"U", "1">>)

\* C15: get_csv_patent_id returns for every row, whatever its cells hold
C15_Total == rpc \in {"resolved", "reresolved"} => rkey.ok

(***************************************************************************)
(* The annotators and their retry loops, one step at a time:               *)
(* process_row (stage 1), async_get_teaching_content (stage 2),            *)
(* async_get_edtech_classification (stage 4), async_get_covid_status       *)
(* (stage 5)                                                               *)
(***************************************************************************)
\* a literal text of the scripts, kept as one token
Lit(w) == PyStr(<<w>>)
\* a Python bool
PyBool(w) == [t |-> "bool", s |-> <<w>>]

\* retry_limit of the stages 2, 4 and 5
retry_limit == 3

\* mutant of AttemptRange: the loop runs once more
AttemptRangeLong(limit) == 1..(limit + 1)

\* range(1, limit + 1)
AttemptRange(limit) == 1..limit

\* str(e) of the exception caught on attempt k when the call itself failed
ErrorAt(k) == PyStr(<<"e">> \o Decimal(k))
\* str(e) of the AttributeError normalize_id raises on a value that is no str
AttrError == Lit("no attribute strip")

\* what one client.chat.completions.create call, and the parsing of its
\* response, can do
ApiOutcomes == {"Raise", "NoMessage", "NoContent", "BadJson", "NoKey", "Answer"}

\* the `reason` of the well-formed answer given on attempt k
ReasonAt(k) == PyStr(<<"r">> \o Decimal(k))

\* the texts an annotator of the stages 2, 4 and 5 is called with
TextInputs == {PyStr(<<"t">>), PyStr(Blank), PyInt(<<"7">>)}

\* stage 4: default_result and error_result
default_result ==
  [technology_class |-> Lit("Unknown"), reason |-> Lit("No description provided")]
error_result ==
  [technology_class |-> Lit("Error"), reason |-> Lit("API call failed")]

Returns(v) == [kind |-> "value", v |-> v]
RaisesOut == [kind |-> "raised", v |-> <<>>]
NoReturn == [kind |-> "none", v |-> <<>>]

InitRetry ==
  /\ StoreIdle
  /\ DriverIdle
  /\ LaterIdle
  /\ ResolveIdle
  /\ OrchIdle
  /\ ann \in {"process_row", "teaching", "classification", "covid"}
  /\ rec \in IF ann = "process_row" THEN {RowPool[k] : k \in 1..Len(RowPool)}
             ELSE TextInputs
  /\ attemptNo = 0
  /\ calls = 0
  /\ outs = <<>>
  /\ errs = <<>>
  /\ slept = <<>>
  /\ ret = NoReturn
  /\ apc = "start"
  /\ shut = FALSE

\* ---- stage 1: process_row -------------------------------------------------
\* lines 119-124: the key and the link, the early return, the loop head
RowEnter ==
  /\ ann = "process_row"
  /\ apc = "start"
  /\ LET pid  == get_csv_patent_id(rec)
         link == Get(rec, "result link", EmptyStr)
     IN  IF ~pid.ok \/ link.t # "str"
           THEN /\ ret' = RaisesOut
                /\ apc' = "done"
                /\ UNCHANGED attemptNo
         ELSE IF Strip(link.s) = <<>> \/ pid.v = <<>>
           THEN /\ ret' = Returns([id |-> PyStr(pid.v), error |-> Lit("Missing URL or ID")])
                /\ apc' = "done"
                /\ UNCHANGED attemptNo
         ELSE /\ attemptNo' = 1
              /\ apc' = "head"
              /\ UNCHANGED ret
  /\ UNCHANGED <<restOfRetry, ann, rec, calls, outs, errs, slept, shut>>

\* lines 125-144: one pass of the loop body
RowCall(outcome) ==
  /\ ann = "process_row"
  /\ apc = "head"
  /\ attemptNo \in AttemptRange(MAX_RETRIES)
  /\ calls' = calls + 1
  /\ outs' = Append(outs, outcome)
  /\ LET pid == get_csv_patent_id(rec).v
         url == Strip(Get(rec, "result link", EmptyStr).s)
         try == TryScrape(rec, pid, url, outcome)
         e   == IF outcome = "Success" THEN AttrError ELSE ErrorAt(attemptNo)
     IN  IF try.ok
           THEN /\ ret' = Returns(try.v)
                /\ apc' = "done"
                /\ UNCHANGED errs
         ELSE /\ errs' = Append(errs, e)
              /\ IF attemptNo < MAX_RETRIES
                   THEN /\ apc' = "sleep"
                        /\ UNCHANGED ret
                   ELSE /\ ret' = Returns([id |-> PyStr(pid), url |-> PyStr(url),
                                           error |-> e])
                        /\ apc' = "done"
  /\ UNCHANGED <<restOfRetry, ann, rec, attemptNo, slept, shut>>

\* lines 139-141: time.sleep(delay), then the next attempt
RowSleep ==
  /\ ann = "process_row"
  /\ apc = "sleep"
  /\ slept' = Append(slept, RetryDelay(attemptNo))
  /\ attemptNo' = attemptNo + 1
  /\ IF attemptNo + 1 \in AttemptRange(MAX_RETRIES)
       THEN apc' = "head" /\ UNCHANGED ret
       ELSE apc' = "done" /\ ret' = Returns(Lit("None"))
  /\ UNCHANGED <<restOfRetry, ann, rec, calls, outs, errs, shut>>

\* ---- stages 2 and 5: async_get_teaching_content, async_get_covid_status ---
\* `if not text.strip(): return <default>` after str(text)
FlagEnter(default) ==
  /\ apc = "start"
  /\ IF Strip(rec.s) = <<>>
       THEN /\ ret' = Returns(default)
            /\ apc' = "done"
            /\ UNCHANGED attemptNo
       ELSE /\ attemptNo' = 1
            /\ apc' = "head"
            /\ UNCHANGED ret
  /\ UNCHANGED <<restOfRetry, ann, rec, calls, outs, errs, slept, shut>>

\* one pass of the loop body: the API call, the parsing of its response, the
\* except clause
FlagCall(default, answer, outcome) ==
  /\ apc = "head"
  /\ attemptNo \in AttemptRange(retry_limit)
  /\ calls' = calls + 1
  /\ outs' = Append(outs, outcome)
  /\ IF outcome \in {"Raise", "NoContent"}
       THEN /\ errs' = Append(errs, ErrorAt(attemptNo))
            /\ IF attemptNo = retry_limit
                 THEN ret' = Returns(default) /\ apc' = "done"
                 ELSE apc' = "sleep" /\ UNCHANGED ret
       ELSE /\ ret' = Returns(IF outcome = "Answer" THEN answer ELSE default)
            /\ apc' = "done"
            /\ UNCHANGED errs
  /\ UNCHANGED <<restOfRetry, ann, rec, attemptNo, slept, shut>>

\* `await asyncio.sleep(attempt)`, then the next attempt
FlagSleep(default) ==
  /\ apc = "sleep"
  /\ slept' = Append(slept, attemptNo)
  /\ attemptNo' = attemptNo + 1
  /\ IF attemptNo + 1 \in AttemptRange(retry_limit)
       THEN apc' = "head" /\ UNCHANGED ret
       ELSE apc' = "done" /\ ret' = Returns(default)
  /\ UNCHANGED <<restOfRetry, ann, rec, calls, outs, errs, shut>>

TeachingEnter ==
  /\ ann = "teaching"
  /\ FlagEnter(PyBool("False"))
TeachingCall(outcome) ==
  /\ ann = "teaching"
  /\ FlagCall(PyBool("False"), PyBool("True"), outcome)
TeachingSleep ==
  /\ ann = "teaching"
  /\ FlagSleep(PyBool("False"))

CovidEnter ==
  /\ ann = "covid"
  /\ FlagEnter(Lit("non-covid"))
CovidCall(outcome) ==
  /\ ann = "covid"
  /\ FlagCall(Lit("non-covid"), Lit("covid"), outcome)
CovidSleep ==
  /\ ann = "covid"
  /\ FlagSleep(Lit("non-covid"))

\* ---- stage 4: async_get_edtech_classification -----------------------------
ClassEnter ==
  /\ ann = "classification"
  /\ apc = "start"
  /\ IF Strip(rec.s) = <<>>
       THEN /\ ret' = Returns(default_result)
            /\ apc' = "done"
            /\ UNCHANGED attemptNo
       ELSE /\ attemptNo' = 1
            /\ apc' = "head"
            /\ UNCHANGED ret
  /\ UNCHANGED <<restOfRetry, ann, rec, calls, outs, errs, slept, shut>>

\* `if shutdown_requested: return error_result` at the top of an iteration
ClassStop ==
  /\ ann = "classification"
  /\ apc = "head"
  /\ attemptNo \in AttemptRange(retry_limit)
  /\ shut
  /\ ret' = Returns(error_result)
  /\ apc' = "done"
  /\ UNCHANGED <<restOfRetry, ann, rec, attemptNo, calls, outs, errs, slept, shut>>

\* one pass of the loop body: the API call, the parsing of its response, the
\* except clauses, the test before the backoff
ClassCall(outcome) ==
  /\ ann = "classification"
  /\ apc = "head"
  /\ attemptNo \in AttemptRange(retry_limit)
  /\ ~shut
  /\ calls' = calls + 1
  /\ outs' = Append(outs, outcome)
  /\ IF outcome = "Answer"
       THEN /\ ret' = Returns([technology_class |-> Lit("engagement"),
                               reason |-> ReasonAt(attemptNo)])
            /\ apc' = "done"
            /\ UNCHANGED <<errs, attemptNo>>
     ELSE IF outcome = "NoKey"
       THEN /\ ret' = Returns([technology_class |-> Lit("Missing"),
                               reason |-> Lit("Missing")])
            /\ apc' = "done"
            /\ UNCHANGED <<errs, attemptNo>>
     ELSE /\ errs' = IF outcome = "NoMessage" THEN errs
                     ELSE Append(errs, ErrorAt(attemptNo))
          /\ IF attemptNo < retry_limit
               THEN apc' = "sleep" /\ UNCHANGED <<ret, attemptNo>>
             ELSE /\ attemptNo' = attemptNo + 1
                  /\ IF attemptNo + 1 \in AttemptRange(retry_limit)
                       THEN apc' = "head" /\ UNCHANGED ret
                       ELSE apc' = "done" /\ ret' = Returns(error_result)
  /\ UNCHANGED <<restOfRetry, ann, rec, slept, shut>>

\* `await asyncio.sleep(attempt * 2)`, then the next attempt
ClassSleep ==
  /\ ann = "classification"
  /\ apc = "sleep"
  /\ slept' = Append(slept, attemptNo * 2)
  /\ attemptNo' = attemptNo + 1
  /\ IF attemptNo + 1 \in AttemptRange(retry_limit)
       THEN apc' = "head" /\ UNCHANGED ret
       ELSE apc' = "done" /\ ret' = Returns(error_result)
  /\ UNCHANGED <<restOfRetry, ann, rec, calls, outs, errs, shut>>

\* stage 4: handle_shutdown, run by the event loop on SIGINT or SIGTERM
RequestShutdown ==
  /\ ann = "classification"
  /\ apc # "done"
  /\ ~shut
  /\ shut' = TRUE
  /\ UNCHANGED <<restOfRetry, ann, rec, attemptNo, calls, outs, errs, slept, ret, apc>>

NextRetry ==
  \/ RowEnter
  \/ \E outcome \in {"Success", "Fail"} : RowCall(outcome)
  \/ RowSleep
  \/ TeachingEnter
  \/ \E outcome \in ApiOutcomes : TeachingCall(outcome)
  \/ TeachingSleep
  \/ CovidEnter
  \/ \E outcome \in ApiOutcomes : CovidCall(outcome)
  \/ CovidSleep
  \/ ClassEnter
  \/ ClassStop
  \/ \E outcome \in ApiOutcomes : ClassCall(outcome)
  \/ ClassSleep
  \/ RequestShutdown

SpecRetry == InitRetry /\ [][NextRetry]_vars

(***************************************************************************)
(* Claims about the annotators, checked under SpecRetry                    *)
(***************************************************************************)
\* C16: no annotator makes its network/API call more than 3 times for one
\* record
C16_AtMostThreeCalls == calls <= 3 /\ Len(outs) = calls

\* stage 4 has made its third call, which failed like the two before it
C16_Witness ==
  /\ ann = "classification"
  /\ apc = "done"
  /\ calls = 3
  /\ outs = <<"Raise", "BadJson", "NoMessage">>
  /\ ret = Returns(error_result)

\* the calls of the finished annotator failed on attempts 1 and 2 and
\* succeeded on attempt 3
FailFailSuccess ==
  /\ apc = "done"
  /\ outs = IF ann = "process_row" THEN <<"Fail", "Fail", "Success">>
            ELSE <<"Raise", "Raise", "Answer">>

\* the value the annotator returns for the successful call of attempt k
SuccessOf(k) ==
  CASE ann = "process_row" ->
         Returns(TryScrape(rec, get_csv_patent_id(rec).v,
                           Strip(Get(rec, "result link", EmptyStr).s), "Success").v)
    [] ann = "teaching" -> Returns(PyBool("True"))
    [] ann = "covid" -> Returns(Lit("covid"))
    [] OTHER -> Returns([technology_class |-> Lit("engagement"), reason |-> ReasonAt(k)])

\* C17: an annotator whose call fails on attempts 1 and 2 and succeeds on
\* attempt 3 returns the success result of attempt 3, after exactly 2 sleeps,
\* the second no shorter than the first
C17_ThirdAttemptWins ==
  FailFailSuccess =>
    /\ ret = SuccessOf(3)
    /\ "error" \notin DOMAIN ret.v
    /\ Len(slept) = 2
    /\ slept[2] >= slept[1]

\* a Python dict, as opposed to a str or a bool
IsDict(v) == "t" \notin DOMAIN v

\* C18: an annotator never raises, and when it has used up its attempts it
\* returns an explicit failure annotation that holds the description of the
\* last error and the identity and URL of the record
C18_ExplicitFailure ==
  /\ ret.kind # "raised"
  /\ (apc = "done" /\ Len(errs) = 3) =>
       /\ ret.kind = "value"
       /\ IsDict(ret.v)
       /\ \E f \in DOMAIN ret.v : ret.v[f] = errs[3]
       /\ ann = "process_row" => {"id", "url"} \subseteq DOMAIN ret.v

(***************************************************************************)
(* The orchestrators of the stages 2, 4 and 5: main() and the              *)
(* process_patent tasks on one asyncio event loop                          *)
(***************************************************************************)
\* most records one behaviour of an orchestrator loads
MaxRecs == 3

\* the field a stage annotates from
TextField(st) == IF st = "stage2" THEN "abstract_text" ELSE "description"

\* the k-th input record: with a text, with a blank text, without the field
InputRecord(st, k, kind) ==
  LET base == [id |-> PyStr(<<"U">> \o Decimal(k))]
  IN  CASE kind = "text"  -> base @@ (TextField(st) :> PyStr(<<"t">>))
        [] kind = "blank" -> base @@ (TextField(st) :> PyStr(Blank))
        [] OTHER          -> base

\* the lists of records the input file can hold
OrchInputs(st) ==
  UNION {{[k \in 1..n |-> InputRecord(st, k, kinds[k])] :
            kinds \in [1..n -> {"text", "blank", "nokey"}]} : n \in 1..MaxRecs}

\* record.get(<text field>, "").strip()
TextOf(st, r) == Strip(Get(r, TextField(st), EmptyStr).s)

\* stage 2, line 229: only the records with a non-empty abstract_text are kept
RECURSIVE WithText(_, _)
WithText(st, rs) ==
  IF rs = <<>> THEN <<>>
  ELSE (IF TextOf(st, Head(rs)) # <<>> THEN <<Head(rs)>> ELSE <<>>)
         \o WithText(st, Tail(rs))

\* what the annotator of a stage can return for a non-blank text
AnnotatorResults(st) ==
  CASE st = "stage2" -> {[teaching_content |-> PyBool("True")],
                         [teaching_content |-> PyBool("False")]}
    [] st = "stage5" -> {[is_covid |-> Lit("covid")], [is_covid |-> Lit("non-covid")]}
    [] OTHER -> {[technology_class |-> Lit("engagement"), reason |-> ReasonAt(1)],
                 [technology_class |-> Lit("Missing"), reason |-> Lit("Missing")],
                 error_result}

\* the fields process_patent sets when the record has no text
NoTextAnnotation(st) ==
  CASE st = "stage2" -> [teaching_content |-> Lit("None")]
    [] st = "stage5" -> [is_covid |-> Lit("non-covid")]
    [] OTHER -> [technology_class |-> Lit("No Description"),
                 reason |-> Lit("No description provided")]

\* stage 4: the fields process_patent sets when it starts after a shutdown
ShutdownAnnotation ==
  [technology_class |-> Lit("Shutdown"), reason |-> Lit("Shutdown requested")]

\* record[key] = value for the keys of fields
SetFields(r, fields) == fields @@ r

InitOrch ==
  /\ StoreIdle
  /\ DriverIdle
  /\ LaterIdle
  /\ ResolveIdle
  /\ RetryIdle
  /\ stage \in {"stage2", "stage4", "stage5"}
  /\ records \in OrchInputs(stage)
  /\ tasks = <<>>
  /\ shutdown_requested = FALSE
  /\ processed_count = 0
  /\ output_file = <<>>
  /\ opc = "read"

\* some task created by create_task has not run its first step yet
SomePending == \E k \in 1..Len(tasks) : tasks[k] = "pending"

\* handle_shutdown, run by the event loop while main() is suspended; the first
\* steps of the tasks just created are queued ahead of it
HandleShutdown ==
  /\ opc = "read" \/ (opc = "await" /\ ~SomePending)
  /\ ~shutdown_requested
  /\ shutdown_requested' = TRUE
  /\ UNCHANGED <<restOfOrch, stage, records, tasks, processed_count, output_file, opc>>

\* main: the input is read, stage 2 filters it, the tasks are created
CreateTasks ==
  /\ opc = "read"
  /\ LET recs == IF stage = "stage2" THEN WithText(stage, records) ELSE records
         ts   == IF stage = "stage4" /\ shutdown_requested THEN <<>>
                 ELSE [k \in 1..Len(recs) |-> "pending"]
     IN  /\ records' = recs
         /\ tasks' = ts
         /\ opc' = IF ts = <<>> THEN "write"
                   ELSE IF stage = "stage4" THEN "check" ELSE "await"
  /\ UNCHANGED <<restOfOrch, stage, shutdown_requested, processed_count, output_file>>

\* process_patent up to its first await, or to its end when it does not await
TaskStart(i) ==
  /\ opc = "await"
  /\ i \in 1..Len(tasks)
  /\ tasks[i] = "pending"
  /\ IF shutdown_requested
       THEN /\ tasks' = [tasks EXCEPT ![i] = "done"]
            /\ records' = IF stage = "stage4"
                            THEN [records EXCEPT ![i] = SetFields(@, ShutdownAnnotation)]
                            ELSE records
     ELSE IF TextOf(stage, records[i]) # <<>>
       THEN /\ tasks' = [tasks EXCEPT ![i] = "waiting"]
            /\ UNCHANGED records
     ELSE /\ tasks' = [tasks EXCEPT ![i] = "done"]
          /\ records' = [records EXCEPT ![i] = SetFields(@, NoTextAnnotation(stage))]
  /\ UNCHANGED <<restOfOrch, stage, shutdown_requested, processed_count, output_file, opc>>

\* the annotator returns and process_patent stores its result in the record
TaskFinish(i) ==
  /\ opc = "await"
  /\ ~SomePending
  /\ i \in 1..Len(tasks)
  /\ tasks[i] = "waiting"
  /\ tasks' = [tasks EXCEPT ![i] = "done"]
  /\ \E result \in AnnotatorResults(stage) :
       records' = [records EXCEPT ![i] = SetFields(@, result)]
  /\ UNCHANGED <<restOfOrch, stage, shutdown_requested, processed_count, output_file, opc>>

\* stage 4, lines 303-307: the test at the top of the as_completed loop
MainCheck ==
  /\ opc = "check"
  /\ IF shutdown_requested
       THEN /\ tasks' = [k \in 1..Len(tasks) |->
                           IF tasks[k] = "done" THEN "done" ELSE "cancelled"]
            /\ opc' = "write"
       ELSE /\ opc' = "await"
            /\ UNCHANGED tasks
  /\ UNCHANGED <<restOfOrch, stage, records, shutdown_requested, processed_count,
                 output_file>>

\* main: `await` of the next future of as_completed returns
MainAwait ==
  /\ opc = "await"
  /\ ~SomePending
  /\ Cardinality({k \in 1..Len(tasks) : tasks[k] = "done"}) > processed_count
  /\ processed_count' = processed_count + 1
  /\ opc' = IF processed_count + 1 = Len(tasks) THEN "write"
            ELSE IF stage = "stage4" THEN "check" ELSE "await"
  /\ UNCHANGED <<restOfOrch, stage, records, tasks, shutdown_requested, output_file>>

\* stage 2, line 251: the records whose teaching_content is True
RECURSIVE TeachingOnly(_)
TeachingOnly(rs) ==
  IF rs = <<>> THEN <<>>
  ELSE (IF Get(Head(rs), "teaching_content", Lit("None")) = PyBool("True")
          THEN <<Head(rs)>> ELSE <<>>) \o TeachingOnly(Tail(rs))

\* the fields the process_patent of a stage assigns
OwnFields(st) ==
  CASE st = "stage2" -> {"teaching_content"}
    [] st = "stage5" -> {"is_covid"}
    [] OTHER -> {"technology_class", "reason"}

\* main writing only the records that carry the annotation of the stage
WriteAnnotated ==
  /\ opc = "write"
  /\ output_file' = SelectSeq(records, LAMBDA r : OwnFields(stage) \subseteq DOMAIN r)
  /\ opc' = "end"
  /\ UNCHANGED <<restOfOrch, stage, records, tasks, shutdown_requested, processed_count>>

\* main: json.dumps of the records and the write of the output file
WriteOutput ==
  /\ opc = "write"
  /\ output_file' = IF stage = "stage2" THEN TeachingOnly(records) ELSE records
  /\ opc' = "end"
  /\ UNCHANGED <<restOfOrch, stage, records, tasks, shutdown_requested, processed_count>>

NextOrch ==
  \/ HandleShutdown
  \/ CreateTasks
  \/ \E i \in 1..MaxRecs : TaskStart(i)
  \/ \E i \in 1..MaxRecs : TaskFinish(i)
  \/ MainCheck
  \/ MainAwait
  \/ WriteOutput

SpecOrch == InitOrch /\ [][NextOrch]_vars

(***************************************************************************)
(* Claims about the orchestrators, checked under SpecOrch                  *)
(***************************************************************************)
\* the record carries the annotation of the stage
Annotated(st, r) ==
  CASE st = "stage2" -> "teaching_content" \in DOMAIN r
    [] st = "stage5" -> "is_covid" \in DOMAIN r
    [] OTHER -> {"technology_class", "reason"} \subseteq DOMAIN r

\* C19: when a stage has written its output, every record it was given
\* carries the annotation of the stage (a value, a failure annotation or the
\* shutdown sentinel), also after a shutdown signal
C19_EveryRecordAnnotated ==
  opc = "end" =>
    /\ \A k \in 1..Len(records) : Annotated(stage, records[k])
    /\ \A k \in 1..Len(output_file) : Annotated(stage, output_file[k])
    /\ stage # "stage2" => output_file = records

\* the list b holds the records of the list a, one for one and in the same
\* order, apart from the fields the stage assigns
SameRecords(st, a, b) ==
  /\ Len(b) = Len(a)
  /\ \A k \in 1..Len(a) :
       /\ DOMAIN a[k] \subseteq DOMAIN b[k]
       /\ DOMAIN b[k] \subseteq DOMAIN a[k] \cup OwnFields(st)
       /\ \A f \in DOMAIN a[k] \ OwnFields(st) : b[k][f] = a[k][f]

\* a step of the stage 4 or 5 keeps the list of records, and the step that
\* writes the output writes the list
ListKept ==
  stage \in {"stage4", "stage5"} =>
    /\ SameRecords(stage, records, records')
    /\ opc' = "end" /\ opc # "end" => SameRecords(stage, records, output_file')

\* C40: the stages 4 and 5 write an array that holds exactly the input records,
\* as many and in the input order: no step of main() or of a task adds, drops or
\* moves a record of the list, and the array written is the list, whatever the
\* order in which the tasks end and whether or not they annotate their record.
C40_OutputIsInput == [][ListKept]_vars

\* stage 4 has written all its records: one task failed on every attempt, one
\* was cancelled before it had annotated its record
C40_Witness ==
  /\ opc = "end"
  /\ stage = "stage4"
  /\ Len(output_file) = MaxRecs
  /\ \E k \in 1..Len(tasks) : tasks[k] = "cancelled" /\ ~Annotated(stage, output_file[k])
  /\ \E k \in 1..Len(tasks) :
       /\ tasks[k] = "done"
       /\ Get(output_file[k], "technology_class", Lit("None")) = error_result.technology_class

(***************************************************************************)
(* Claims about the batch of stage 1, checked under Spec                   *)
(***************************************************************************)
\* C20: an exception of the per-record work never aborts the batch: once rows
\* are handed to the pool, main() goes on to its final flush
C20_BatchNotAborted == ~(mpc = "crashed" /\ new_rows # <<>>)


(***************************************************************************)
(* Admission of the API calls of the stages 2, 4 and 5: every task runs    *)
(* `async with semaphore: async with limiter: await client...create(...)`  *)
(* inside its retry loop, all tasks on one event loop.  Time advances in   *)
(* ticks of RATE_PERIOD / RATE_LIMIT, the time in which the limiter's      *)
(* bucket leaks one unit; a rate window is RATE_LIMIT ticks long.  A step  *)
(* of a task runs from one suspension to the next, as on the event loop.   *)
(* The tasks run the same code on records that play no part here, so the   *)
(* state keeps how many tasks are at each place, not which.                *)
(***************************************************************************)
MaxTasks == 3
MAX_CONCURRENT_REQUESTS == 2
RATE_LIMIT == 2

\* asyncio.Semaphore.locked(): no permit is free
NeverLocked(value) == FALSE

Locked(value) == value = 0

\* AsyncLimiter.has_capacity(1): the bucket has room for one more unit
has_capacity(level) == level + 1 <= RATE_LIMIT

\* a bucket that never leaks
LeakNever(level) == level
\* AsyncLimiter._leak over one tick
Leak(level) == IF level > 0 THEN level - 1 ELSE 0

RECURSIVE SumSeq(_)
SumSeq(q) == IF q = <<>> THEN 0 ELSE Head(q) + SumSeq(Tail(q))

\* a task at place `at` of its attempt number `attempt`
TaskIn(at, attempt) == [at |-> at, attempt |-> attempt]
Begin == TaskIn("begin", 0)
Over(at) == TaskIn(at, 0)

\* how many tasks are at one of the places
NumAt(places) ==
  BagCardinality([e \in {x \in BagToSet(taskBag) : x.at \in places} |-> taskBag[e]])

InFlight == NumAt({"call"})
\* the tasks inside `async with semaphore`
Holders == NumAt({"lim", "call"})
Unfinished == NumAt({"begin", "sem", "lim", "call", "sleep"})

\* one task goes from e to f
Move(e, f) == (taskBag (-) SetToBag({e})) (+) SetToBag({f})

InitAdmit ==
  /\ StoreIdle
  /\ DriverIdle
  /\ ResolveIdle
  /\ RetryIdle
  /\ OrchIdle
  /\ MoreIdle
  /\ FetchIdle
  /\ InputIdle
  /\ ParseIdle
  /\ script \in {"stage2", "stage4", "stage5"}
  /\ semaphore = MAX_CONCURRENT_REQUESTS
  /\ limiter = 0
  /\ taskBag = [e \in {Begin} |-> MaxTasks]
  /\ window = [k \in 1..RATE_LIMIT |-> 0]
  /\ stopping = FALSE
  /\ lateStart = FALSE
  /\ mainWake = FALSE

\* the task returns from process_patent; in stage 4 main() looks at the flag when
\* as_completed hands it the finished task
Finish(e) ==
  /\ taskBag' = Move(e, Over("done"))
  /\ mainWake' = (mainWake \/ script = "stage4")

\* `async with limiter:` entered by a task that holds a permit; with capacity the
\* API call starts in the same step
EnterLimiter(e, attempt) ==
  IF has_capacity(limiter)
    THEN /\ limiter' = limiter + 1
         /\ taskBag' = Move(e, TaskIn("call", attempt))
         /\ window' = [window EXCEPT ![1] = @ + 1]
         /\ lateStart' = (lateStart \/ stopping)
    ELSE /\ taskBag' = Move(e, TaskIn("lim", attempt))
         /\ UNCHANGED <<limiter, window, lateStart>>

\* the first step of process_patent, or the top of a later attempt once
\* asyncio.sleep is over
AttemptTop ==
  \E e \in BagToSet(taskBag) :
    /\ e.at \in {"begin", "sleep"}
    /\ IF stopping /\ (e.at = "begin" \/ script = "stage4")
         THEN /\ Finish(e)
              /\ UNCHANGED <<semaphore, limiter, window, lateStart>>
         ELSE /\ UNCHANGED mainWake
              /\ IF Locked(semaphore)
                   THEN /\ taskBag' = Move(e, TaskIn("sem", e.attempt + 1))
                        /\ UNCHANGED <<semaphore, limiter, window, lateStart>>
                   ELSE /\ semaphore' = semaphore - 1
                        /\ EnterLimiter(e, e.attempt + 1)
    /\ UNCHANGED <<script, stopping, restOfAdmit>>

\* a permit was released and the event loop resumes a task waiting for one
SemaphoreWake ==
  \E e \in BagToSet(taskBag) :
    /\ e.at = "sem"
    /\ ~Locked(semaphore)
    /\ semaphore' = semaphore - 1
    /\ EnterLimiter(e, e.attempt)
    /\ UNCHANGED <<script, stopping, mainWake, restOfAdmit>>

\* the bucket has leaked and the limiter resumes a task waiting in acquire()
LimiterWake ==
  \E e \in BagToSet(taskBag) :
    /\ e.at = "lim"
    /\ has_capacity(limiter)
    /\ EnterLimiter(e, e.attempt)
    /\ UNCHANGED <<script, semaphore, stopping, mainWake, restOfAdmit>>

\* the API call ends; both context managers are left, which releases the permit
\* and leaves the bucket alone.  A failed attempt below the bound sleeps.
CallReturn ==
  \E e \in BagToSet(taskBag) :
    /\ e.at = "call"
    /\ semaphore' = semaphore + 1
    /\ \E failed \in BOOLEAN :
          IF failed /\ e.attempt < retry_limit
            THEN /\ taskBag' = Move(e, TaskIn("sleep", e.attempt))
                 /\ UNCHANGED mainWake
            ELSE Finish(e)
    /\ UNCHANGED <<script, limiter, window, stopping, lateStart, restOfAdmit>>

\* one tick of time passes
Tick ==
  /\ Unfinished > 0
  /\ limiter' = Leak(limiter)
  /\ window' = <<0>> \o SubSeq(window, 1, RATE_LIMIT - 1)
  /\ UNCHANGED <<script, semaphore, taskBag, stopping, lateStart, mainWake,
                 restOfAdmit>>

\* handle_shutdown; the signal arrives while main() reads the input or after the
\* first step of every task
SignalShutdown ==
  /\ ~stopping
  /\ NumAt({"begin"}) \in {0, MaxTasks}
  /\ stopping' = TRUE
  /\ UNCHANGED <<script, semaphore, limiter, taskBag, window, lateStart, mainWake,
                 restOfAdmit>>

\* stage 4: main() resumes in `for future in asyncio.as_completed(tasks)` and
\* cancels the unfinished tasks when the flag is set
MainResume ==
  /\ mainWake
  /\ mainWake' = FALSE
  /\ IF stopping /\ Unfinished > 0
       THEN /\ taskBag' = [e \in {x \in BagToSet(taskBag) : x.at = "done"}
                             |-> taskBag[e]]
                          (+) [e \in {Over("cancelled")} |-> Unfinished]
            /\ semaphore' = semaphore + Holders
       ELSE UNCHANGED <<taskBag, semaphore>>
  /\ UNCHANGED <<script, limiter, window, stopping, lateStart, restOfAdmit>>

NextAdmit ==
  \/ AttemptTop
  \/ SemaphoreWake
  \/ LimiterWake
  \/ CallReturn
  \/ Tick
  \/ SignalShutdown
  \/ MainResume

SpecAdmit == InitAdmit /\ [][NextAdmit]_vars

\* C21: in the stages 2, 4 and 5 at most MAX_CONCURRENT_REQUESTS API calls are in
\* flight at any moment, whatever the number of tasks, their interleaving and
\* their retries.
C21_InFlightBounded ==
  script # "off" =>
    /\ InFlight <= MAX_CONCURRENT_REQUESTS
    /\ semaphore + Holders = MAX_CONCURRENT_REQUESTS

\* the cap is reached by a retry while another task waits for a permit
C21_Witness ==
  /\ InFlight = MAX_CONCURRENT_REQUESTS
  /\ NumAt({"sem"}) > 0
  /\ \E e \in BagToSet(taskBag) : e.at = "call" /\ e.attempt > 1

\* C22: at most RATE_LIMIT API calls start within any one rate window, and a
\* call starts only while its task holds a permit of the semaphore.
C22_WindowBounded ==
  script # "off" =>
    /\ SumSeq(window) <= RATE_LIMIT
    /\ InFlight <= MAX_CONCURRENT_REQUESTS

\* C23: once shutdown_requested is set no API call is started, neither by a task
\* waiting for the semaphore or the limiter nor between two attempts.
C23_NoCallAfterShutdown == ~lateStart


(***************************************************************************)
(* Stage 1 under an interrupt.  01_get_patents.py installs no signal       *)
(* handler: SIGINT reaches main() as KeyboardInterrupt inside the loop     *)
(* over pool.imap_unordered, nothing catches it, the `with mp.Pool` block  *)
(* terminates the workers and the final flush after the loop is not run;   *)
(* SIGTERM ends the process at once with the same outcome.                 *)
(***************************************************************************)
KeyboardInterrupt ==
  /\ mpc = "pool"
  /\ mpc' = "interrupted"
  /\ inflight' = {}
  /\ buffer' = <<>>
  /\ UNCHANGED <<stageVars, storeVars, rows, run, deduped, processed, new_rows,
                 skipped, nextTask, done, fsAtLoad, completed>>

NextSignal ==
  \/ Dedupe
  \/ Filter
  \/ TakeRow
  \/ \E k \in 1..MaxRows, o \in Outcomes : Deliver(k, o)
  \/ FinalFlush
  \/ RunAgain
  \/ KeyboardInterrupt

SpecSignal == InitDriver /\ [][NextSignal]_vars

\* the records of the output folder
Persisted(dir) == {Concat(dir)[k] : k \in 1..Len(Concat(dir))}

\* C24: when a stage exits after a shutdown signal, every annotation completed
\* before the signal is in its persisted output (in stage 1 the results still
\* in the buffer included) and the records the output held before are still there.
C24_ResultsPersisted ==
  mpc = "interrupted" =>
    /\ \A k \in 1..Len(done) : done[k].rec \in Persisted(fs)
    /\ Persisted(fsAtLoad) \subseteq Persisted(fs)


\* what a call does when its attempt fails for a reason that may pass: the call
\* raised, the response carried no message or no content, or the content could
\* not be parsed
TransientFailures == {"Raise", "NoMessage", "NoContent", "BadJson"}

\* C28: in every LLM annotator an attempt that fails transiently, an unparsable
\* response included, is retried up to the attempt bound: the annotator gives
\* up on the record only when the attempt that failed is the last one.
C28_RetriedToBound ==
  ( /\ ann \in {"teaching", "classification", "covid"}
    /\ apc = "done"
    /\ ~shut
    /\ calls > 0
    /\ outs[calls] \in TransientFailures ) => calls = retry_limit


(***************************************************************************)
(* Stage 3, 03_get_description.py: process_patents loads the input list    *)
(* and scrapes one patent after the other; PatentScraper._get_page_html    *)
(* makes the page requests.  What the server does with a request is an     *)
(* input of the step.                                                      *)
(***************************************************************************)
MaxPatents == 2

PyNone == [t |-> "none", s |-> <<>>]

\* Python's `a or b`
PyOr(a, b) == IF a.t # "none" /\ Truthy(a) THEN a ELSE b

\* str.replace('-', '')
RemoveHyphens(s) == SelectSeq(s, LAMBDA c : c # "-")

\* PatentScraper._convert_id_to_url_format
convert_id_to_url_format(original_id) == Strip(RemoveHyphens(original_id))

BaseUrl(original_id) == <<"x">> \o PatentLit \o convert_id_to_url_format(original_id)
EnUrl(original_id) == BaseUrl(original_id) \o <<"/", "e", "n">>

\* what a GET can do: a page, HTTPError from raise_for_status with the status,
\* or another exception (timeout, connection error)
GetOutcomes == {"200", "404", "500", "timeout"}

NoSoup == [page |-> FALSE, url |-> <<>>]
Soup(url) == [page |-> TRUE, url |-> url]

Request(url, outcome) == [url |-> url, outcome |-> outcome]

\* _get_page_html as the claim C29 has it: no second request unless the first
\* ended with 404
get_page_html_404_only(original_id, en, base) ==
  CASE en = "200" ->
         [soup |-> Soup(EnUrl(original_id)),
          requests |-> <<Request(EnUrl(original_id), en)>>]
    [] en = "404" ->
         [soup |-> IF base = "200" THEN Soup(BaseUrl(original_id)) ELSE NoSoup,
          requests |-> <<Request(EnUrl(original_id), en),
                         Request(BaseUrl(original_id), base)>>]
    [] OTHER ->
         [soup |-> NoSoup, requests |-> <<Request(EnUrl(original_id), en)>>]

\* PatentScraper._get_page_html: en and base are what the server does with the
\* request for the /en URL and, when it is made, for the base URL
get_page_html(original_id, en, base) ==
  IF en = "200"
    THEN [soup |-> Soup(EnUrl(original_id)),
          requests |-> <<Request(EnUrl(original_id), en)>>]
    ELSE \* both except clauses only log; control reaches the fallback
         [soup |-> IF base = "200" THEN Soup(BaseUrl(original_id)) ELSE NoSoup,
          requests |-> <<Request(EnUrl(original_id), en),
                         Request(BaseUrl(original_id), base)>>]

\* the first two characters of the id, or nothing
Country(original_id) ==
  IF Len(original_id) >= 2 THEN SubSeq(original_id, 1, 2) ELSE <<>>

\* PatentScraper.scrape_patent: None (here NoData) without a page or when
\* building the result raises
NoData == [none |-> TRUE]

scrape_patent(original_id, en, base, parsed) ==
  LET got == get_page_html(original_id, en, base)
  IN  [requests |-> got.requests,
       soup |-> got.soup,
       result |->
         IF got.soup.page /\ parsed
           THEN [id |-> PyStr(original_id),
                 application_number |-> PyStr(convert_id_to_url_format(original_id)),
                 country |-> PyStr(Country(original_id)),
                 description |-> PyStr(<<"d">>)]
           ELSE NoData]

\* the records stage 3 can be given: an id with a hyphen, an id under "patent",
\* an empty id backed by "patent", and a record without identifier
PatentPool ==
  { [id |-> PyStr(<<"U", "-", "1">>), abstract_text |-> PyStr(<<"a">>)],
    [patent |-> PyStr(<<"U", "2">>)],
    [id |-> EmptyStr, patent |-> PyStr(<<"U", "3">>)],
    [title |-> PyStr(<<"t">>)] }

RECURSIVE SeqsUpTo(_, _)
SeqsUpTo(S, n) ==
  IF n = 0 THEN {<<>>}
  ELSE SeqsUpTo(S, n - 1) \cup
       {Append(q, x) : q \in {r \in SeqsUpTo(S, n - 1) : Len(r) = n - 1}, x \in S}

\* the input path: no file, a file that is not JSON, JSON that is not a list,
\* or a list of records
InputFiles3 ==
  {[kind |-> k, data |-> <<>>] : k \in {"missing", "notjson", "notlist"}}
    \cup {[kind |-> "list", data |-> d] : d \in SeqsUpTo(PatentPool, MaxPatents)}

InitFetch ==
  /\ StoreIdle
  /\ DriverIdle
  /\ ResolveIdle
  /\ RetryIdle
  /\ OrchIdle
  /\ MoreIdle
  /\ AdmitIdle
  /\ InputIdle
  /\ ParseIdle
  /\ input_file \in InputFiles3
  /\ patents = <<>>
  /\ patentNo = 0
  /\ page_requests = <<>>
  /\ soup = NoSoup
  /\ results = <<>>
  /\ failed_patents = <<>>
  /\ files3 = <<>>
  /\ fpc = "load"

\* load_patent_data and the check that follows it in process_patents: the
\* exception of a missing or malformed file is logged and raised again, and
\* nothing in process_patents catches it; an empty list is logged and returns
LoadPatentData ==
  /\ fpc = "load"
  /\ IF input_file.kind # "list"
       THEN fpc' = "raised" /\ UNCHANGED patents
       ELSE /\ patents' = input_file.data
            /\ fpc' = IF input_file.data = <<>> THEN "returned" ELSE "loop"
  /\ UNCHANGED <<restOfFetch, input_file, patentNo, page_requests, soup, results,
                 failed_patents, files3>>

\* patent.get('id') or patent.get('patent')
OriginalId(patent) == PyOr(Get(patent, "id", PyNone), Get(patent, "patent", PyNone))

EndOfLoop(n) == IF n = Len(patents) THEN "save" ELSE "loop"

\* one pass of the loop for a record without identifier
MissingId ==
  /\ fpc = "loop"
  /\ LET patent == patents[patentNo + 1]
     IN  /\ ~(OriginalId(patent).t # "none" /\ Truthy(OriginalId(patent)))
         /\ failed_patents' =
              Append(failed_patents, [error |-> Lit("Missing ID"), data |-> patent])
  /\ patentNo' = patentNo + 1
  /\ fpc' = EndOfLoop(patentNo + 1)
  /\ UNCHANGED <<restOfFetch, input_file, patents, page_requests, soup, results,
                 files3>>

\* one pass of the loop for a record with an identifier: scrape_patent, then
\* the merged record goes to results or the identifier to failed_patents
ScrapeOne(en, base, parsed) ==
  /\ fpc = "loop"
  /\ LET patent == patents[patentNo + 1]
         oid    == OriginalId(patent)
     IN  /\ oid.t # "none" /\ Truthy(oid)
         /\ LET scraped == scrape_patent(oid.s, en, base, parsed)
            IN  /\ page_requests' = scraped.requests
                /\ soup' = scraped.soup
                /\ IF scraped.result # NoData
                     THEN /\ results' = Append(results, scraped.result @@ patent)
                          /\ UNCHANGED failed_patents
                     ELSE /\ failed_patents' = Append(failed_patents, oid)
                          /\ UNCHANGED results
  /\ patentNo' = patentNo + 1
  /\ fpc' = EndOfLoop(patentNo + 1)
  /\ UNCHANGED <<restOfFetch, input_file, patents, files3>>

\* the output file is written, and failed_patents.json when there are failures
SaveResults ==
  /\ fpc = "save"
  /\ files3' = IF failed_patents # <<>>
                 THEN ("output" :> results) @@ ("failed_patents.json" :> failed_patents)
                 ELSE "output" :> results
  /\ fpc' = "returned"
  /\ UNCHANGED <<restOfFetch, input_file, patents, patentNo, page_requests, soup,
                 results, failed_patents>>

NextFetch ==
  \/ LoadPatentData
  \/ MissingId
  \/ \E en \in GetOutcomes, base \in GetOutcomes, parsed \in BOOLEAN :
        ScrapeOne(en, base, parsed)
  \/ SaveResults

SpecFetch == InitFetch /\ [][NextFetch]_vars

\* the latest _get_page_html call asked for the /en URL first
EnFirst ==
  /\ page_requests[1].url = SubSeq(page_requests[1].url, 1,
                                   Len(page_requests[1].url) - 3) \o <<"/", "e", "n">>
  /\ Len(page_requests) = 2 =>
       page_requests[2].url \o <<"/", "e", "n">> = page_requests[1].url

MaxFiles == 2

\* the lists of records a JSON file can hold
FileLists(st) ==
  { <<>>,
    <<InputRecord(st, 1, "text")>>,
    <<InputRecord(st, 2, "blank")>>,
    <<InputRecord(st, 3, "text"), InputRecord(st, 4, "nokey")>> }

\* a file: not JSON (async_read_json raises), JSON that is not a list, a list
FileContents(st) ==
  {[json |-> k, data |-> <<>>] : k \in {"notjson", "notlist"}}
    \cup {[json |-> "list", data |-> d] : d \in FileLists(st)}

\* what the input path can hold
InputPaths(st) ==
  IF st = "stage2"
    THEN {[kind |-> k, files |-> <<>>] : k \in {"missing", "file"}}
           \cup {[kind |-> "dir", files |-> fl] :
                   fl \in SeqsUpTo(FileContents(st), MaxFiles)}
    ELSE {[kind |-> "missing", files |-> <<>>]}
           \cup {[kind |-> "file", files |-> <<f>>] : f \in FileContents(st)}

NotWritten == [written |-> FALSE, data |-> <<>>]

InitInput ==
  /\ StoreIdle
  /\ DriverIdle
  /\ ResolveIdle
  /\ RetryIdle
  /\ OrchIdle
  /\ MoreIdle
  /\ AdmitIdle
  /\ FetchIdle
  /\ ParseIdle
  /\ istage \in {"stage2", "stage4", "stage5"}
  /\ input_path \in InputPaths(istage)
  /\ fileNo = 0
  /\ loaded = <<>>
  /\ error_log = 0
  /\ annotations = 0
  /\ out_file = NotWritten
  /\ ipc = "check"

\* main: the checks on the input path before anything is read
CheckInput ==
  /\ ipc = "check"
  /\ LET bad == IF istage = "stage2"
                  THEN input_path.kind # "dir" \/ input_path.files = <<>>
                  ELSE input_path.kind = "missing"
     IN  IF bad
           THEN error_log' = error_log + 1 /\ ipc' = "returned"
           ELSE ipc' = "read" /\ UNCHANGED error_log
  /\ UNCHANGED <<restOfInput, istage, input_path, fileNo, loaded, annotations, out_file>>

\* main: one file is read.  Stage 2 logs a file it cannot use and goes on to
\* the next; the stages 4 and 5 log and return.
ReadFile ==
  /\ ipc = "read"
  /\ LET file == input_path.files[fileNo + 1]
         last == fileNo + 1 = Len(input_path.files)
     IN  IF file.json = "list"
           THEN /\ loaded' = loaded \o file.data
                /\ ipc' = IF last THEN "tasks" ELSE "read"
                /\ UNCHANGED error_log
           ELSE /\ error_log' = error_log + 1
                /\ ipc' = IF istage # "stage2" THEN "returned"
                          ELSE IF last THEN "tasks" ELSE "read"
                /\ UNCHANGED loaded
  /\ fileNo' = fileNo + 1
  /\ UNCHANGED <<restOfInput, istage, input_path, annotations, out_file>>

\* main: stage 2 keeps the records with a text; one task per record runs
\* process_patent to its end
RunTasks ==
  /\ ipc = "tasks"
  /\ LET recs == IF istage = "stage2" THEN WithText(istage, loaded) ELSE loaded
     IN  /\ \E result \in AnnotatorResults(istage) :
              loaded' = [k \in 1..Len(recs) |->
                           IF TextOf(istage, recs[k]) # <<>>
                             THEN SetFields(recs[k], result)
                             ELSE SetFields(recs[k], NoTextAnnotation(istage))]
         /\ annotations' = Len(recs)
  /\ ipc' = "write"
  /\ UNCHANGED <<restOfInput, istage, input_path, fileNo, error_log, out_file>>

\* main: the output file is written
WriteOut ==
  /\ ipc = "write"
  /\ out_file' = [written |-> TRUE,
                  data |-> IF istage = "stage2" THEN TeachingOnly(loaded) ELSE loaded]
  /\ ipc' = "end"
  /\ UNCHANGED <<restOfInput, istage, input_path, fileNo, loaded, error_log,
                 annotations>>

NextInput ==
  \/ CheckInput
  \/ ReadFile
  \/ RunTasks
  \/ WriteOut

SpecInput == InitInput /\ [][NextInput]_vars

\* the input directory or file is missing, or a file main() has come to holds
\* JSON that is not a list
FatalInput ==
  \/ input_path.kind = IF istage = "stage2" THEN "file" ELSE "dir"
  \/ input_path.kind = "missing"
  \/ \E k \in 1..fileNo : input_path.files[k].json = "notlist"

\* C30: on a fatal input condition (input directory or file missing, a file
\* whose content is not a list) the stage aborts with a logged error: from
\* then on no record is annotated and no output file is written.
C30_FatalInputAborts ==
  (istage # "off" /\ ipc # "check" /\ FatalInput) =>
    /\ error_log > 0
    /\ annotations = 0
    /\ ~out_file.written


(***************************************************************************)
(* The response of the LLM and its parsing in the stages 2, 4 and 5:       *)
(* extract_json, json.loads and the lookup of the expected keys.  A        *)
(* response is a sequence of symbols: the fence ```, the word json, the    *)
(* punctuation of JSON, blanks and newlines, and words standing for the    *)
(* names and texts between them.  The regular expressions of extract_json  *)
(* match fences, braces and white space only, so they are followed symbol  *)
(* by symbol.                                                              *)
(***************************************************************************)
\* the symbol of three backticks
Fence == "fence"
Quote == "\""

\* s[i], or no symbol past the ends
SymAt(s, i) == IF i \in 1..Len(s) THEN s[i] ELSE ""

\* the first index from i on that holds no white space
RECURSIVE SkipSpace(_, _)
SkipSpace(s, i) ==
  IF i <= Len(s) /\ IsSpace(s[i]) THEN SkipSpace(s, i + 1) ELSE i

StartsWith(s, c) == s # <<>> /\ s[1] = c
EndsWith(s, c) == s # <<>> /\ s[Len(s)] = c

SetMin(S) == CHOOSE x \in S : \A y \in S : x <= y
SetMax(S) == CHOOSE x \in S : \A y \in S : x >= y

(* json.loads: a recursive-descent reading of objects, strings and the      *)
(* literals true, false, null and a number, into Python values.  A dict is  *)
(* kept as its items in insertion order.                                    *)
PyDict(items) == [t |-> "dict", items |-> items]

Literals == {"true", "false", "null", "5"}

LiteralValue(w) ==
  CASE w = "true" -> PyBool("True")
    [] w = "false" -> PyBool("False")
    [] w = "null" -> PyNone
    [] OTHER -> PyInt(<<w>>)

ParseFail == [ok |-> FALSE, next |-> 0, val |-> PyNone]
Parsed(next, val) == [ok |-> TRUE, next |-> next, val |-> val]

\* d[k] = v on the items of a dict
SetItem(items, k, v) ==
  IF \E n \in 1..Len(items) : items[n].k = k
    THEN [n \in 1..Len(items) |->
            IF items[n].k = k THEN [k |-> k, v |-> v] ELSE items[n]]
    ELSE Append(items, [k |-> k, v |-> v])

RECURSIVE NextQuote(_, _)
NextQuote(s, i) ==
  IF i > Len(s) THEN 0 ELSE IF s[i] = Quote THEN i ELSE NextQuote(s, i + 1)

\* a string: from a quote to the next one, with no control character between
ParseString(s, i) ==
  IF SymAt(s, i) # Quote THEN ParseFail
  ELSE LET j == NextQuote(s, i + 1)
       IN  IF j = 0 \/ \E n \in (i + 1)..(j - 1) : IsSpace(s[n]) /\ s[n] # " "
             THEN ParseFail
             ELSE Parsed(j + 1, PyStr(SubSeq(s, i + 1, j - 1)))

RECURSIVE ParseValue(_, _)
RECURSIVE ParseMembers(_, _, _)
ParseValue(s, i) ==
  CASE SymAt(s, i) = Quote -> ParseString(s, i)
    [] SymAt(s, i) \in Literals -> Parsed(i + 1, LiteralValue(s[i]))
    [] SymAt(s, i) = "{" ->
         LET j == SkipSpace(s, i + 1)
         IN  IF SymAt(s, j) = "}" THEN Parsed(j + 1, PyDict(<<>>))
             ELSE ParseMembers(s, j, <<>>)
    [] OTHER -> ParseFail

ParseMembers(s, i, items) ==
  LET name  == ParseString(s, i)
      colon == SkipSpace(s, name.next)
      val   == ParseValue(s, SkipSpace(s, colon + 1))
      after == SkipSpace(s, val.next)
      more  == SetItem(items, name.val.s, val.val)
  IN  IF ~name.ok \/ SymAt(s, colon) # ":" THEN ParseFail
      ELSE IF ~val.ok THEN ParseFail
      ELSE CASE SymAt(s, after) = "," -> ParseMembers(s, SkipSpace(s, after + 1), more)
             [] SymAt(s, after) = "}" -> Parsed(after + 1, PyDict(more))
             [] OTHER -> ParseFail

\* json.loads(s): Ret of the value, or Raised for json.JSONDecodeError
json_loads(s) ==
  LET r == ParseValue(s, SkipSpace(s, 1))
  IN  IF r.ok /\ SkipSpace(s, r.next) = Len(s) + 1 THEN Ret(r.val) ELSE Raised

\* json.dumps(v), with its separators ", " and ": "
RECURSIVE json_dumps(_)
RECURSIVE DumpItems(_)
json_dumps(v) ==
  CASE v.t = "str" -> <<Quote>> \o v.s \o <<Quote>>
    [] v.t = "bool" -> IF v = PyBool("True") THEN <<"true">> ELSE <<"false">>
    [] v.t = "none" -> <<"null">>
    [] v.t = "dict" -> <<"{">> \o DumpItems(v.items) \o <<"}">>
    [] OTHER -> v.s

DumpItems(items) ==
  IF items = <<>> THEN <<>>
  ELSE <<Quote>> \o Head(items).k \o <<Quote, ":", " ">> \o json_dumps(Head(items).v)
         \o (IF Len(items) > 1 THEN <<",", " ">> ELSE <<>>) \o DumpItems(Tail(items))

NoMatch == [found |-> FALSE, group |-> <<>>]

\* where "```(?:json)?\s*\{" matches from position p: the index of the brace,
\* or 0
OpenAfterFence(s, p) ==
  LET a == IF SymAt(s, p + 1) = "json" THEN p + 2 ELSE p + 1
      b == SkipSpace(s, a)
  IN  IF SymAt(s, p) = Fence /\ SymAt(s, b) = "{" THEN b ELSE 0

\* the closing braces after b that "\}\s*```" matches
ClosersFrom(s, b) ==
  {e \in (b + 1)..Len(s) : s[e] = "}" /\ SymAt(s, SkipSpace(s, e + 1)) = Fence}

\* re.search(r"```(?:json)?\s*(\{.*?\})\s*```", s, re.DOTALL), and with lazy
\* FALSE the pattern of stage 4, whose group is (\{.*\}): the leftmost fence
\* from which the pattern matches, and from its brace the nearest closing
\* brace (lazy) or the farthest (greedy)
FencedObject(s, lazy) ==
  LET starts == {p \in 1..Len(s) :
                   OpenAfterFence(s, p) # 0 /\ ClosersFrom(s, OpenAfterFence(s, p)) # {}}
  IN  IF starts = {} THEN NoMatch
      ELSE LET b == OpenAfterFence(s, SetMin(starts))
               e == IF lazy THEN SetMin(ClosersFrom(s, b)) ELSE SetMax(ClosersFrom(s, b))
           IN  [found |-> TRUE, group |-> SubSeq(s, b, e)]

\* re.search(r"```(.*?)```", s, re.DOTALL)
FirstFenced(s) ==
  LET fences == {p \in 1..Len(s) : s[p] = Fence}
  IN  IF Cardinality(fences) < 2 THEN NoMatch
      ELSE LET p == SetMin(fences)
               q == SetMin(fences \ {p})
           IN  [found |-> TRUE, group |-> SubSeq(s, p + 1, q - 1)]

\* extract_json of 02_get_edtech.py and 05_check_is_covid.py
extract_json(txt) ==
  LET m1   == FencedObject(txt, TRUE)
      m2   == FirstFenced(txt)
      cand == Strip(m2.group)
  IN  IF m1.found THEN m1.group
      ELSE IF m2.found /\ StartsWith(cand, "{") /\ EndsWith(cand, "}") THEN cand
      ELSE Strip(txt)

\* str.strip(',')
RECURSIVE StripCommas(_)
StripCommas(s) ==
  IF StartsWith(s, ",") THEN StripCommas(Tail(s))
  ELSE IF EndsWith(s, ",") THEN StripCommas(SubSeq(s, 1, Len(s) - 1))
  ELSE s

\* the repair of stage 4's extract_json: both braces are added
Repair(cand) == <<"{">> \o StripCommas(Strip(cand)) \o <<"}">>

\* extract_json of 04_edtech_classidied.py: Ret of the normalised JSON text, or
\* Raised for the json.JSONDecodeError it raises again
extract_json4(txt) ==
  LET stripped == Strip(txt)
      m        == FencedObject(stripped, FALSE)
      cand0    == IF m.found THEN Strip(m.group) ELSE stripped
      cand     == IF StartsWith(cand0, "{") /\ EndsWith(cand0, "}") THEN cand0
                  ELSE Repair(cand0)
      obj      == json_loads(cand)
  IN  IF obj.ok THEN Ret(json_dumps(obj.v)) ELSE Raised

\* d.get(k, default) and `k in d` on the items of a dict
InDict(d, k) == \E n \in 1..Len(d.items) : d.items[n].k = k
DictGet(d, k, default) ==
  IF InDict(d, k) THEN d.items[CHOOSE n \in 1..Len(d.items) : d.items[n].k = k].v
  ELSE default

\* the content of a response without text
NoneContent == <<"None">>

\* the key the annotator of a stage looks up, and what it returns without it
ExpectedKey(st) ==
  CASE st = "stage2" -> <<"teaching_content">>
    [] st = "stage5" -> <<"is_covid">>
    [] OTHER -> <<"technology_class">>

\* an annotator that answers yes where it has nothing to go on
FlagOpposite(st) == IF st = "stage2" THEN PyBool("True") ELSE Lit("covid")

\* `return False` of stage 2 and `return "non-covid"` of stage 5
FlagDefault(st) == IF st = "stage2" THEN PyBool("False") ELSE Lit("non-covid")

\* what async_get_teaching_content / async_get_covid_status return for the
\* parsed content.  `key in parsed` and parsed[key] on a value that is no dict
\* are False or raise inside the inner try: the default either way.
FlagResult(st, parsed) ==
  IF parsed.ok /\ parsed.v.t = "dict" /\ InDict(parsed.v, ExpectedKey(st))
    THEN Ret(DictGet(parsed.v, ExpectedKey(st), PyNone))
    ELSE Ret(FlagDefault(st))

\* one attempt of async_get_teaching_content / async_get_covid_status on a
\* response with this content: what it returns, or that the attempt raised
\* into the outer except
FlagAttempt(st, c) ==
  IF c = NoneContent THEN Raised
  ELSE FlagResult(st, json_loads(extract_json(c)))

\* json.loads(content_cleaned) of stage 4, reached when extract_json returned
LoadCleaned(cleaned) == IF cleaned.ok THEN json_loads(cleaned.v) ELSE Raised

\* what async_get_edtech_classification makes of the parsed content: the
\* classification it returns, or Raised for the ValueError of a value that is
\* no dict and for the error of extract_json
ClassResult(parsed) ==
  IF ~parsed.ok \/ parsed.v.t # "dict" THEN Raised
  ELSE Ret([technology_class |->
              DictGet(parsed.v, <<"technology_class">>, Lit("Missing")),
            reason |-> DictGet(parsed.v, <<"reason">>, Lit("Missing"))])

\* one attempt of async_get_edtech_classification: what it returns, or that
\* the attempt failed and the loop goes on
ClassAttempt(c) ==
  IF c = NoneContent THEN Raised
  ELSE ClassResult(LoadCleaned(extract_json4(c)))

\* the end of the retry loop when every attempt ends as this one: the value
\* returned and the number of API calls made
Retried(st, once) ==
  IF once.ok THEN [v |-> once.v, calls |-> 1]
  ELSE [v |-> IF st = "stage4" THEN error_result ELSE FlagDefault(st),
        calls |-> retry_limit]

\* the annotator of a stage when every attempt gets a response with content c
AnnotatorOn(st, c) ==
  Retried(st, IF st = "stage4" THEN ClassAttempt(c) ELSE FlagAttempt(st, c))


(* The responses the annotators are given: an object in one of several     *)
(* layouts, or something that is no object at all.                          *)
Member(k, value) == <<Quote>> \o k \o <<Quote, ":", " ">> \o value
Str(words) == <<Quote>> \o words \o <<Quote>>
Commas(a, b) == a \o <<",", " ">> \o b

\* the answer the prompt of a stage asks for
AnswerBody(st) ==
  CASE st = "stage2" -> Member(ExpectedKey(st), <<"true">>)
    [] st = "stage5" -> Member(ExpectedKey(st), Str(<<"covid">>))
    [] OTHER -> Commas(Member(ExpectedKey(st), Str(<<"engagement">>)),
                       Member(<<"reason">>, Str(<<"because">>)))

\* a text that quotes a closing brace and a fence
QuotedCode == Str(<<"see", " ", "}", Fence>>)

BodyKinds == {"answer", "quoting", "nokey", "nomembers"}

\* the members of the object, without its braces
BodyOf(st, kind) ==
  CASE kind = "answer" -> AnswerBody(st)
    [] kind = "quoting" ->
         IF st = "stage4"
           THEN Commas(Member(ExpectedKey(st), Str(<<"engagement">>)),
                       Member(<<"reason">>, QuotedCode))
           ELSE Commas(AnswerBody(st), Member(<<"note">>, QuotedCode))
    [] kind = "nokey" -> Member(<<"note">>, Str(<<"because">>))
    [] OTHER -> <<>>

Object(b) == <<"{">> \o b \o <<"}">>

FencedLayouts == {"fenced_json", "fenced", "fenced_tight", "fenced_padded"}
BrokenLayouts == {"no_open", "no_close", "no_braces"}
NoObjectLayouts == {"words", "number", "string", "empty", "none"}
Layouts == {"bare"} \cup FencedLayouts \cup BrokenLayouts \cup NoObjectLayouts

\* the content of the response
ContentOf(st, b, how) ==
  CASE how = "bare" -> Object(b)
    [] how = "fenced_json" -> <<Fence, "json", "\n">> \o Object(b) \o <<"\n", Fence>>
    [] how = "fenced" -> <<Fence, "\n">> \o Object(b) \o <<"\n", Fence>>
    [] how = "fenced_tight" -> <<Fence, "json">> \o Object(b) \o <<Fence>>
    [] how = "fenced_padded" ->
         <<" ", "\n", Fence, "json", " ", "\n">> \o Object(b) \o <<" ", "\n", Fence, "\n">>
    [] how = "no_open" -> b \o <<"}">>
    [] how = "no_close" -> <<"{">> \o b
    [] how = "no_braces" -> b
    [] how = "words" -> <<"I", " ", "cannot", " ", "say">>
    [] how = "number" -> <<"5">>
    [] how = "string" -> Str(ExpectedKey(st))
    [] how = "empty" -> <<>>
    [] OTHER -> NoneContent

NoAnswer == [v |-> PyNone, calls |-> 0]

InitParse ==
  /\ StoreIdle
  /\ DriverIdle
  /\ ResolveIdle
  /\ RetryIdle
  /\ OrchIdle
  /\ MoreIdle
  /\ AdmitIdle
  /\ FetchIdle
  /\ InputIdle
  /\ pstage \in {"stage2", "stage4", "stage5"}
  /\ body \in BodyKinds
  /\ layout \in Layouts
  /\ reply = ContentOf(pstage, BodyOf(pstage, body), layout)
  /\ bareOut = NoAnswer
  /\ replyOut = NoAnswer
  /\ ppc = "start"

\* the annotator on a response whose content is the object alone
AnnotateBare ==
  /\ ppc = "start"
  /\ bareOut' = AnnotatorOn(pstage, Object(BodyOf(pstage, body)))
  /\ ppc' = "bare"
  /\ UNCHANGED <<restOfParse, pstage, body, layout, reply, replyOut>>

\* the annotator on the response
AnnotateReply ==
  /\ ppc = "bare"
  /\ replyOut' = AnnotatorOn(pstage, reply)
  /\ ppc' = "done"
  /\ UNCHANGED <<restOfParse, pstage, body, layout, reply, bareOut>>

NextParse ==
  \/ AnnotateBare
  \/ AnnotateReply

SpecParse == InitParse /\ [][NextParse]_vars

\* the stage's default or negative classification
IsDefault(st, v) ==
  IF st = "stage4"
    THEN v.technology_class \in {Lit("Missing"), Lit("Error")}
    ELSE v = (IF st = "stage2" THEN PyBool("False") ELSE Lit("non-covid"))

\* the response holds nothing to classify from: it is no JSON, JSON that is no
\* object, empty, or an object without the expected key
NothingToParse ==
  \/ layout \in NoObjectLayouts
  \/ layout \in {"bare"} \cup FencedLayouts /\ body \in {"nokey", "nomembers"}

\* C25: whatever the content of the response (no JSON, JSON that is no object,
\* an object without the expected key, empty content), the LLM annotators
\* return the default or negative classification of their stage; they make at
\* most retry_limit calls and raise nothing.
C25_DefaultOnBadContent ==
  (ppc = "done" /\ NothingToParse) =>
    /\ IsDefault(pstage, replyOut.v)
    /\ replyOut.calls \in 1..retry_limit

\* stage 4 gave up on a response that is no JSON after its last attempt, and
\* stage 5 on a string that names its key
C25_Witness ==
  /\ ppc = "done"
  /\ \/ pstage = "stage4" /\ layout = "words" /\ replyOut = [v |-> error_result,
                                                           calls |-> retry_limit]
     \/ pstage = "stage5" /\ layout = "string" /\ replyOut.v = Lit("non-covid")

\* C26: a JSON object in a fenced code block, with or without the json tag and
\* with white space or newlines around it, gives the same classification as
\* the object alone.
C26_FencedSameAsBare ==
  (ppc = "done" /\ layout \in FencedLayouts) => replyOut.v = bareOut.v

\* C27: an object body without its opening brace, its closing brace or both is
\* coerced into the object and gives the same classification as the complete
\* object, in every LLM annotator.
C27_BracesCoerced ==
  (ppc = "done" /\ layout \in BrokenLayouts) => replyOut.v = bareOut.v


(***************************************************************************)
(* Further claims about the stage-1 driver, checked under Spec             *)
(***************************************************************************)
\* the results main() has taken from the pool, in the order of delivery
Delivered == [k \in 1..Len(done) |-> done[k].rec]

\* C36: when the run of stage 1 is over, every result the pool delivered has
\* been passed to append_patents exactly once: the store holds the records it
\* held when the run began followed by the delivered results, each once, and a
\* run that came to its end delivered one result for every row submitted.
C36_DeliveredOnce ==
  (mpc \in {"finished", "crashed"} /\ new_rows # <<>>) =>
    /\ Concat(fs) = Concat(fsAtLoad) \o Delivered
    /\ mpc = "finished" => Len(done) = Len(new_rows)

\* C39: a row whose scrape failed on every attempt leaves an error record in
\* the store, and the key a later run computes for the row is among the keys
\* load_processed_ids reads from the store, so that the filter of the later run
\* leaves the row out.
C39_FailedRowNotRetried ==
  mpc = "finished" =>
    \A k \in 1..Len(done) :
      {"url", "error"} \subseteq DOMAIN done[k].rec =>
        /\ done[k].rec \in Persisted(fs)
        /\ load_processed_ids(fs).ok
        /\ ~IsNew(RowKey(done[k].row), load_processed_ids(fs).v)

(***************************************************************************)
(* The key scan of stage 1 on folders as earlier runs, crashes and other   *)
(* writers can leave them: main() calls load_processed_ids on the output   *)
(* folder and later passes its buffer to append_patents.                   *)
(***************************************************************************)
\* most entries of the chunk the scan specification fills
MaxEntries == 2

OlderIdle ==
  /\ StoreIdle
  /\ DriverIdle
  /\ ResolveIdle
  /\ RetryIdle
  /\ OrchIdle
  /\ AdmitIdle
  /\ FetchIdle
  /\ InputIdle
  /\ ParseIdle

\* entries a chunk file can hold
EntryPool ==
  { \* a scraped record, an error record with its url, an error record without
    Rec(1), Rec(2), Rec(3),
    \* original_id holds blanks only; url and id name the patent
    [id |-> PyStr(<<"U", "4">>), url |-> PyStr(UrlOf(<<"U", "4">>)),
     csv_title |-> PyStr(<<"t">>), original_id |-> PyStr(Blank)],
    \* no field that names a patent
    [id |-> EmptyStr, error |-> PyStr(<<"m">>)],
    \* the id is a JSON number
    [id |-> PyInt(<<"7">>), error |-> PyStr(<<"e">>)],
    \* the url is a JSON number
    [id |-> PyStr(<<"U", "8">>), url |-> PyInt(<<"8">>)],
    \* the entry is a JSON string, not an object
    PyStr(<<"U", "9">>) }

ChunkContents == UNION {[1..n -> EntryPool] : n \in 0..MaxEntries}

\* what the folder holds besides chunk 0: nothing, an unparsable chunk followed
\* by a good one, a second chunk, and the leftovers of a crash between the dump
\* to path + ".tmp" and os.replace (the dump cut short or complete, of a new
\* chunk or of the chunk being filled)
OtherFiles ==
  { EmptyDir,
    OutputPath(1) :> PartialFile @@ OutputPath(2) :> File(Supply(5, 1)),
    OutputPath(1) :> File(Supply(5, 1)),
    TmpPath(OutputPath(1)) :> PartialFile,
    TmpPath(OutputPath(1)) :> File(Supply(5, 2)),
    TmpPath(OutputPath(0)) :> File(Supply(5, 1)),
    OutputPath(1) :> File(Supply(5, 2)) @@ TmpPath(OutputPath(3)) :> File(Supply(6, 1)) }

ScanDirs == {OutputPath(0) :> File(c) @@ o : c \in ChunkContents, o \in OtherFiles}

InitScan ==
  /\ OlderIdle
  /\ WriterIdle
  /\ SectIdle
  /\ PipeIdle
  /\ scanFolder \in ScanDirs
  /\ outFolder = scanFolder
  /\ scanned = <<>>
  /\ flushed = <<>>
  /\ scpc = "start"

\* main, step 3: processed = load_processed_ids(OUTPUT_FOLDER); an exception
\* of the call ends main()
LoadProcessed ==
  /\ scpc = "start"
  /\ scanned' = load_processed_ids(outFolder)
  /\ scpc' = IF load_processed_ids(outFolder).ok THEN "loaded" ELSE "crashed"
  /\ UNCHANGED <<restOfScan, scanFolder, outFolder, flushed>>

\* main, step 5: the buffer of new results is passed to append_patents
FlushBuffer ==
  /\ scpc = "loaded"
  /\ \E n \in 1..(CHUNK_SIZE + 1) :
       /\ flushed' = Supply(10, n)
       /\ outFolder' = append_patents(outFolder, Supply(10, n), CHUNK_SIZE)
  /\ scpc' = "flushed"
  /\ UNCHANGED <<restOfScan, scanFolder, scanned>>

NextScan ==
  \/ LoadProcessed
  \/ FlushBuffer

SpecScan == InitScan /\ [][NextScan]_vars

\* the entries of the parsable chunk files of a folder
ChunkEntries(dir) ==
  UNION {{dir[p].data[k] : k \in 1..Len(dir[p].data)} :
           p \in {q \in DOMAIN dir : q.ext = "json" /\ q.isint /\ dir[q].valid}}

\* the keys of the entries that resolve to one
ResolvedKeys(dir) == UNION {EntryKey(e).v : e \in {x \in ChunkEntries(dir) : EntryKey(x).ok}}

\* C32: load_processed_ids always completes the scan: it returns, and what it
\* returns holds the key of every record that resolves to one, whatever else
\* the chunk files hold and whether or not some chunk file cannot be parsed.
C32_ScanCompletes ==
  scpc \in {"loaded", "crashed", "flushed"} =>
    /\ scanned.ok
    /\ ResolvedKeys(scanFolder) \subseteq scanned.v

\* the text of a field of an entry, empty when the field is missing
FieldText(e, k) == Get(e, k, EmptyStr).s

\* the candidates of an entry in the order original_id, id of the url, id
Candidates(e) ==
  << normalize_id(FieldText(e, "original_id")),
     normalize_id(extract_patent_id_str(FieldText(e, "url"))),
     normalize_id(FieldText(e, "id")) >>

\* the first candidate that is not empty, or the empty key
FirstKey(e) ==
  LET c == Candidates(e)
  IN  IF c[1] # <<>> THEN c[1] ELSE IF c[2] # <<>> THEN c[2] ELSE c[3]

\* C33: the processed-key set holds, for every stored record, the first of its
\* candidates original_id, id of the url, id that is not empty once
\* normalized, and nothing else; it never holds the empty key.
C33_FirstNonEmptyKey ==
  scpc \in {"loaded", "flushed"} =>
    /\ <<>> \notin scanned.v
    /\ scanned.v = {FirstKey(e) : e \in ChunkEntries(scanFolder)} \ {<<>>}

\* the folder without the files whose name ends in .tmp
Chunks(dir) == [p \in {q \in DOMAIN dir : q.ext # "json.tmp"} |-> dir[p]]

\* C38: a file path + ".tmp" left in the folder is no chunk: the listing
\* holds no such path, the keys loaded are those of the folder without it, and
\* the chunk files after append_patents are those it writes to the folder
\* without it, so the index of the next new chunk is the same.
C38_TmpIgnored ==
  /\ \A k \in 1..Len(list_existing_json(outFolder)) :
       list_existing_json(outFolder)[k].path.ext = "json"
  /\ scpc \in {"loaded", "crashed", "flushed"} =>
       scanned = load_processed_ids(Chunks(scanFolder))
  /\ scpc = "flushed" =>
       Chunks(outFolder) = append_patents(Chunks(scanFolder), flushed, CHUNK_SIZE)

\* the folder held a complete dump of a new chunk under its .tmp name, with a
\* record whose key was not loaded, and new chunks were written after the scan
C38_Witness ==
  /\ scpc = "flushed"
  /\ \E p \in DOMAIN scanFolder :
       /\ p.ext = "json.tmp"
       /\ scanFolder[p].valid
       /\ \A q \in DOMAIN scanFolder : q.ext = "json" => q.n < p.n
       /\ ~(KeysOfList(scanFolder[p].data) \subseteq scanned.v)
  /\ Len(list_existing_json(outFolder)) > Len(list_existing_json(scanFolder))

(***************************************************************************)
(* Stage 3: the section parsers of PatentScraper on one fetched page and   *)
(* the record scrape_patent builds from what they return.  A page is       *)
(* described by what each of its sections is like: there and well formed,  *)
(* absent, or such that the parser's code raises part of the way.          *)
(***************************************************************************)
PyList(items) == [t |-> "list", s |-> items]

\* what the JSON-LD script of a page is like: well formed; absent; not JSON
\* (json.JSONDecodeError); an object whose datePublished is no str, so that
\* .strip() raises after the title is set; a tag without text, so that
\* json.loads raises TypeError
MetadataKinds == {"jsonld", "nold", "badld", "ldraises", "tagraises"}
\* a section: present; absent; or its parser raises after the first item
SectionKinds == {"good", "absent", "raises"}

Pages ==
  [metadata : MetadataKinds, classifications : SectionKinds, abstract : SectionKinds,
   description : SectionKinds, claims : SectionKinds, citations : SectionKinds]

\* the <meta> tags of the head: DC.title, publicationDate, and the inventors
MetaTags ==
  [title |-> PyStr(<<"M">>), publication_date |-> PyStr(<<"2">>),
   inventors |-> PyList(<<PyStr(<<"I">>)>>)]

\* _parse_metadata: the dict `metadata` as far as the try block got
parse_metadata(kind) ==
  CASE kind = "jsonld" ->
         Ret([title |-> PyStr(<<"T">>), publication_date |-> MetaTags.publication_date,
              abstract |-> PyStr(<<"L">>), inventors |-> MetaTags.inventors])
    [] kind \in {"nold", "badld"} -> Ret(MetaTags)
    [] kind = "ldraises" -> Ret([title |-> PyStr(<<"T">>)])
    [] OTHER -> Ret(<<>>)

\* _parse_classifications: the dict `classifications`, filled in place
parse_classifications(kind) ==
  CASE kind = "good" ->
         Ret([numbers |-> PyList(<<PyStr(<<"G">>), PyStr(<<"H">>)>>),
              descriptions |-> PyList(<<PyStr(<<"g">>), PyStr(<<"h">>)>>)])
    [] kind = "raises" ->
         Ret([numbers |-> PyList(<<PyStr(<<"G">>)>>), descriptions |-> PyList(<<>>)])
    [] OTHER -> Ret([numbers |-> PyList(<<>>), descriptions |-> PyList(<<>>)])

\* _parse_abstract: abstract_text is assigned once, by the last statement of
\* the try block
parse_abstract(kind) == Ret(IF kind = "good" THEN PyStr(<<"a">>) ELSE EmptyStr)

\* _parse_description without its try block
parse_description_uncaught(kind) ==
  CASE kind = "good" -> Ret(PyStr(<<"d">>))
    [] kind = "raises" -> Raised
    [] OTHER -> Ret(EmptyStr)

\* _parse_description
parse_description(kind) == Ret(IF kind = "good" THEN PyStr(<<"d">>) ELSE EmptyStr)

\* _parse_claims: the list `claims` as far as the loop got
parse_claims(kind) ==
  CASE kind = "good" -> Ret(<<PyStr(<<"c">>), PyStr(<<"k">>)>>)
    [] kind = "raises" -> Ret(<<PyStr(<<"c">>)>>)
    [] OTHER -> Ret(<<>>)

\* _parse_citations: forward citations are collected before backward ones
parse_citations(kind) ==
  CASE kind = "good" ->
         Ret([forward |-> <<PyStr(<<"F">>)>>, backward |-> <<PyStr(<<"B">>)>>])
    [] kind = "raises" -> Ret([forward |-> <<PyStr(<<"F">>)>>, backward |-> <<>>])
    [] OTHER -> Ret([forward |-> <<>>, backward |-> <<>>])

\* " ".join(claims) if claims else ""
RECURSIVE JoinClaims(_)
JoinClaims(claims) ==
  IF claims = <<>> THEN <<>>
  ELSE IF Len(claims) = 1 THEN Head(claims).s
  ELSE Head(claims).s \o <<" ">> \o JoinClaims(Tail(claims))

\* the dict literal of scrape_patent, lines 261-275: a later key replaces an
\* equal earlier one, so 'abstract' is the abstract section's
ResultOf(original_id, metadata, classifications, abstract, description, claims, citations) ==
  [classification_numbers |-> classifications.numbers,
   classification_descriptions |-> classifications.descriptions,
   abstract |-> abstract,
   description |-> description,
   claims |-> PyStr(JoinClaims(claims)),
   forward_cites |-> PyList(citations.forward),
   backward_cites |-> PyList(citations.backward),
   all_cites |-> PyList(citations.forward \o citations.backward)]
    @@ metadata
    @@ [id |-> PyStr(original_id),
        application_number |-> PyStr(convert_id_to_url_format(original_id)),
        country |-> PyStr(Country(original_id))]

\* the try block of scrape_patent once the page is there: an exception of a
\* parser would leave result None
ParsePage(original_id, metadata, classifications, abstract, description, claims, citations) ==
  IF metadata.ok /\ classifications.ok /\ abstract.ok /\ description.ok /\ claims.ok
       /\ citations.ok
    THEN ResultOf(original_id, metadata.v, classifications.v, abstract.v, description.v,
                  claims.v, citations.v)
    ELSE NoData

InitSect ==
  /\ OlderIdle
  /\ WriterIdle
  /\ ScanIdle
  /\ PipeIdle
  /\ sections \in Pages
  /\ parsedOut = <<>>
  /\ sepc = "fetched"

\* scrape_patent from `metadata = self._parse_metadata(soup)` to its return
ScrapeSections ==
  /\ sepc = "fetched"
  /\ parsedOut' = ParsePage(<<"U", "-", "1">>,
                            parse_metadata(sections.metadata),
                            parse_classifications(sections.classifications),
                            parse_abstract(sections.abstract),
                            parse_description(sections.description),
                            parse_claims(sections.claims),
                            parse_citations(sections.citations))
  /\ sepc' = "returned"
  /\ UNCHANGED <<restOfSect, sections>>

NextSect == ScrapeSections

SpecSect == InitSect /\ [][NextSect]_vars

\* the value of a text section in the result: the text, or nothing
TextOrEmpty(kind, text) == IF kind = "good" THEN PyStr(text) ELSE EmptyStr

\* the keys of the result the metadata parser alone provides
MetadataKeys == {"title", "publication_date", "inventors"}

\* C34: whatever sections of the page make their parser fail, scrape_patent
\* returns a record; in it a section whose parse failed is empty or holds what
\* was parsed before the failure, and every other section holds what its own
\* parser produced, as if no other section had failed.
C34_SectionsIsolated ==
  sepc = "returned" =>
    /\ parsedOut # NoData
    /\ parsedOut.description = TextOrEmpty(sections.description, <<"d">>)
    /\ parsedOut.abstract = TextOrEmpty(sections.abstract, <<"a">>)
    /\ parsedOut.classification_numbers = parse_classifications(sections.classifications).v.numbers
    /\ parsedOut.claims.s = JoinClaims(parse_claims(sections.claims).v)
    /\ parsedOut.forward_cites.s = parse_citations(sections.citations).v.forward
    /\ parsedOut.all_cites.s =
         parse_citations(sections.citations).v.forward
           \o parse_citations(sections.citations).v.backward
    /\ \A k \in MetadataKeys :
         /\ k \in DOMAIN parsedOut <=> k \in DOMAIN parse_metadata(sections.metadata).v
         /\ k \in DOMAIN parsedOut => parsedOut[k] = parse_metadata(sections.metadata).v[k]
    /\ parsedOut.id = PyStr(<<"U", "-", "1">>)

\* the parsers of the metadata, the description and the citations failed on one
\* page, the other sections were parsed
C34_Witness ==
  /\ sepc = "returned"
  /\ sections.metadata = "ldraises"
  /\ sections.description = "raises"
  /\ sections.citations = "raises"
  /\ sections.abstract = "good"
  /\ sections.claims = "good"
  /\ parsedOut # NoData
  /\ parsedOut.claims = PyStr(<<"c", " ", "k">>)
  /\ "inventors" \notin DOMAIN parsedOut

(***************************************************************************)
(* One record on its way through the pipeline: written by stage 1, then    *)
(* handled by process_patent and main() of stage 2, by process_patents of  *)
(* stage 3, and by process_patent of the stages 4 and 5.                   *)
(***************************************************************************)
\* keys the dict of scraper.get_scraped_data may hold besides abstract_text.
\* The library is not part of the scripts; stage 3 reads the key 'patent'
\* (line 315), and 'title' is a key the metadata parser of stage 3 sets as well
LibraryKeys(pid) ==
  { <<>>,
    [patent |-> PyStr(pid)],
    [title |-> PyStr(<<"l">>)],
    [patent |-> PyStr(pid), title |-> PyStr(<<"l">>)] }

\* the records stage 1 writes for the rows of RowPool: process_row's record
\* with the library's keys under the fields process_row assigns
Stage1Records ==
  UNION {{process_row(RowPool[k], OutcomesFor(fails)).rec @@ lib :
            lib \in IF "abstract_text" \in DOMAIN process_row(RowPool[k], OutcomesFor(fails)).rec
                      THEN LibraryKeys(RowKey(RowPool[k])) ELSE {<<>>}} :
           k \in {j \in 1..Len(RowPool) : ~process_row(RowPool[j], OutcomesFor(0)).raised},
           fails \in {0, MAX_RETRIES}}

\* the pages stage 3 fetches for the record
PipePages ==
  { [metadata |-> "jsonld", classifications |-> "good", abstract |-> "good",
     description |-> "good", claims |-> "good", citations |-> "good"],
    [metadata |-> "tagraises", classifications |-> "absent", abstract |-> "raises",
     description |-> "absent", claims |-> "raises", citations |-> "good"] }

\* the history of the fields after a stage has turned the record into r
PutFields(r) == [f \in DOMAIN r \cup DOMAIN asPut |-> IF f \in DOMAIN asPut THEN asPut[f] ELSE r[f]]

InitPipe ==
  /\ OlderIdle
  /\ WriterIdle
  /\ ScanIdle
  /\ SectIdle
  /\ record \in Stage1Records
  /\ asPut = record
  /\ atStage = "stage2"

\* stage 2: main() drops a record without abstract_text, process_patent sets
\* teaching_content, main() writes the records whose teaching_content is True
Stage2Record ==
  /\ atStage = "stage2"
  /\ IF WithText("stage2", <<record>>) = <<>>
       THEN /\ atStage' = "dropped"
            /\ UNCHANGED <<record, asPut>>
       ELSE \E result \in AnnotatorResults("stage2") :
              /\ record' = SetFields(record, result)
              /\ asPut' = PutFields(SetFields(record, result))
              /\ atStage' = IF TeachingOnly(<<SetFields(record, result)>>) # <<>>
                              THEN "stage3" ELSE "dropped"
  /\ UNCHANGED restOfPipe

\* stage 3: process_patents merges what scrape_patent returns into the record;
\* a record without identifier or without a page goes to failed_patents
Stage3Record ==
  /\ atStage = "stage3"
  /\ IF ~(OriginalId(record).t # "none" /\ Truthy(OriginalId(record)))
       THEN /\ atStage' = "dropped"
            /\ UNCHANGED <<record, asPut>>
       ELSE \/ /\ atStage' = "dropped"
               /\ UNCHANGED <<record, asPut>>
            \/ \E page \in PipePages :
                 LET merged ==
                       ParsePage(OriginalId(record).s,
                                 parse_metadata(page.metadata),
                                 parse_classifications(page.classifications),
                                 parse_abstract(page.abstract),
                                 parse_description(page.description),
                                 parse_claims(page.claims),
                                 parse_citations(page.citations)) @@ record
                 IN  /\ record' = merged
                     /\ asPut' = PutFields(merged)
                     /\ atStage' = "stage4"
  /\ UNCHANGED restOfPipe

\* stages 4 and 5: process_patent annotates the record from its description
AnnotateRecord(st, next) ==
  /\ atStage = st
  /\ \E result \in IF TextOf(st, record) # <<>> THEN AnnotatorResults(st)
                   ELSE {NoTextAnnotation(st)} :
       /\ record' = SetFields(record, result)
       /\ asPut' = PutFields(SetFields(record, result))
  /\ atStage' = next
  /\ UNCHANGED restOfPipe

Stage4Record == AnnotateRecord("stage4", "stage5")
Stage5Record == AnnotateRecord("stage5", "end")

NextPipe ==
  \/ Stage2Record
  \/ Stage3Record
  \/ Stage4Record
  \/ Stage5Record

SpecPipe == InitPipe /\ [][NextPipe]_vars

\* C31: a field a stage has put on the record stays on it with the value it
\* was put with, through every later stage: the stage-3 merge and the
\* annotating stages only add fields of their own.
C31_FieldsKept ==
  atStage # "off" =>
    \A f \in DOMAIN asPut : f \in DOMAIN record /\ record[f] = asPut[f]

(***************************************************************************)
(* Progress of the stages 2, 4 and 5 when no shutdown signal arrives.  The *)
(* event loop runs a task that is ready (the top of an attempt, a waiter   *)
(* of the semaphore or of the limiter that can go on, main() in            *)
(* as_completed), time passes, and every API call returns or raises: as    *)
(* long as one of these steps can be taken, one is taken.                  *)
(***************************************************************************)
NextNoSignal ==
  \/ AttemptTop
  \/ SemaphoreWake
  \/ LimiterWake
  \/ CallReturn
  \/ Tick
  \/ MainResume

FairAdmit == InitAdmit /\ [][NextNoSignal]_vars /\ WF_vars(NextNoSignal)

\* every task has returned and every permit is back
AllFinished ==
  /\ Unfinished = 0
  /\ NumAt({"done"}) = MaxTasks
  /\ semaphore = MAX_CONCURRENT_REQUESTS

\* C37: when no shutdown is requested and every API call returns or raises,
\* every task of the stages 2, 4 and 5 eventually finishes, with all permits of
\* the semaphore given back, so that main() leaves its loop over as_completed
\* and reaches the output write: the tasks never block each other for good on
\* the semaphore and the limiter.
C37_TasksFinish == <>AllFinished

\* all tasks are through without a shutdown, the last calls were started one
\* after the other as the bucket leaked
C37_Witness ==
  /\ ~stopping
  /\ AllFinished
  /\ SumSeq(window) > 0
  /\ limiter < RATE_LIMIT

(***************************************************************************)
(* The processes of stage 1: the driver that runs main() and the workers   *)
(* of mp.Pool that run process_row.  A process is inside append_patents    *)
(* while its frame is neither idle nor done; every write and rename is     *)
(* recorded with the process that made it.                                 *)
(***************************************************************************)
\* most rows main() hands to the pool
MaxJobs == 3

\* the process that runs the script; the workers of the pool are 1..NUM_PROCESSES
Driver == 0
PoolWorkers == 1..NUM_PROCESSES
Procs == {Driver} \cup PoolWorkers

\* the name a module is run under: the script itself, and the copy a spawned
\* worker imports
MainName == "__main__"
MpMainName == "__mp_main__"

\* lines 311-312: `if __name__ == "__main__": main()`
RunsMain(name) == name = MainName

At(where) == [at |-> where, row |-> 0]

\* lines 207-224 of append_patents: the frame of a call on folder dir
EnterAppend(dir, new_list) ==
  LET existing == list_existing_json(dir)
      last     == existing[Len(existing)]
      content  == ReadContent(dir, last.path)
  IN  IF ReturnsAtOnce(new_list) THEN [IdleFrame EXCEPT !.pc = "done"]
      ELSE IF existing # <<>> /\ HasRoom(content, cap)
        THEN [pc |-> "fill_open", new_list |-> new_list,
              space |-> Space(content, cap),
              next_idx |-> NextIdx(existing), i |-> 0,
              target |-> last.path,
              data |-> content \o ToAdd(new_list, Space(content, cap))]
      ELSE LoopFrame(new_list, 0, NextIdx(existing))

\* a process_row that stores its own record
RowFrameStores(dir, made) == EnterAppend(dir, <<made>>)
\* lines 114-144: the append_patents call process_row is in once it has its
\* record: none, the record is returned to the pool
RowFrame(dir, made) == IdleFrame

InCall(p) == frameOf[p].pc \notin {"idle", "done"}

InitWriter ==
  /\ DriverIdle
  /\ ResolveIdle
  /\ RetryIdle
  /\ OrchIdle
  /\ AdmitIdle
  /\ FetchIdle
  /\ InputIdle
  /\ ParseIdle
  /\ ScanIdle
  /\ SectIdle
  /\ PipeIdle
  /\ fs \in InitDirs
  /\ cap = CHUNK_SIZE
  /\ ap = IdleFrame
  /\ pre = EmptyDir
  /\ arg = <<>>
  /\ written = <<>>
  /\ used = 0
  /\ dir0 = fs
  /\ startMethod \in {"fork", "spawn"}
  /\ procAt = [p \in Procs |->
                 IF p = Driver THEN (IF RunsMain(MainName) THEN At("pool") ELSE At("end"))
                 ELSE At("unborn")]
  /\ frameOf = [p \in Procs |-> IdleFrame]
  /\ jobs \in 1..MaxJobs
  /\ outq = <<>>
  /\ held = [p \in Procs |-> <<>>]
  /\ writes = {}

\* line 295: mp.Pool(NUM_PROCESSES, initializer=init_worker) starts the workers
PoolStart(p) ==
  /\ procAt[p].at = "pool"
  /\ procAt' = [q \in Procs |->
                  IF q = p THEN At("loop")
                  ELSE IF procAt[q].at = "unborn" THEN At("boot") ELSE procAt[q]]
  /\ UNCHANGED <<fs, startMethod, frameOf, jobs, outq, held, writes, restOfWriter>>

\* a worker comes up: a forked worker goes on inside the pool's worker loop, a
\* spawned one imports the script as __mp_main__ first; then init_worker runs.
\* A main() run during that import would fail at mp.Pool, the worker being
\* still in its bootstrap
WorkerBoot(w) ==
  /\ procAt[w].at = "boot"
  /\ procAt' = [procAt EXCEPT ![w] =
                  IF startMethod = "spawn" /\ RunsMain(MpMainName)
                    THEN At("crashed") ELSE At("idle")]
  /\ UNCHANGED <<fs, startMethod, frameOf, jobs, outq, held, writes, restOfWriter>>

\* an idle worker is handed the next row of new_rows
WorkerTake(w) ==
  /\ procAt[w].at = "idle"
  /\ jobs > 0
  /\ procAt' = [procAt EXCEPT ![w] = [at |-> "busy", row |-> jobs]]
  /\ jobs' = jobs - 1
  /\ UNCHANGED <<fs, startMethod, frameOf, outq, held, writes, restOfWriter>>

\* lines 114-144: process_row returns its record, or raises; it opens no file
WorkerReturn(w, raised) ==
  /\ procAt[w].at = "busy"
  /\ outq' = Append(outq, [raised |-> raised, rec |-> Rec(10 + procAt[w].row)])
  /\ procAt' = [procAt EXCEPT ![w] = At("idle")]
  /\ frameOf' = [frameOf EXCEPT ![w] =
                   IF raised THEN IdleFrame ELSE RowFrame(fs, Rec(10 + procAt[w].row))]
  /\ UNCHANGED <<fs, startMethod, jobs, held, writes, restOfWriter>>

\* lines 297-302: main's loop takes a result; a full buffer goes to append_patents
MainTake(p) ==
  /\ procAt[p].at = "loop"
  /\ outq # <<>>
  /\ outq' = Tail(outq)
  /\ LET res == Head(outq)
         buf == Append(held[p], res.rec)
     IN  IF res.raised
           THEN /\ procAt' = [procAt EXCEPT ![p] = At("crashed")]
                /\ UNCHANGED <<frameOf, held>>
           ELSE /\ held' = [held EXCEPT ![p] = buf]
                /\ IF Len(buf) >= CHUNK_SIZE
                     THEN /\ frameOf' = [frameOf EXCEPT ![p] = EnterAppend(fs, buf)]
                          /\ procAt' = [procAt EXCEPT ![p] = At("append")]
                     ELSE UNCHANGED <<frameOf, procAt>>
  /\ UNCHANGED <<fs, startMethod, jobs, writes, restOfWriter>>

\* lines 226 and 238: open(tmp, "w")
TmpOpen(p) ==
  /\ frameOf[p].pc \in {"fill_open", "new_open"}
  /\ fs' = WriteFile(fs, TmpPath(frameOf[p].target), PartialFile)
  /\ frameOf' = [frameOf EXCEPT ![p].pc =
                   IF frameOf[p].pc = "fill_open" THEN "fill_dump" ELSE "new_dump"]
  /\ writes' = writes \cup {[by |-> p, path |-> TmpPath(frameOf[p].target)]}
  /\ UNCHANGED <<startMethod, procAt, jobs, outq, held, restOfWriter>>

\* lines 227 and 239: json.dump into the temporary file
TmpDump(p) ==
  /\ frameOf[p].pc \in {"fill_dump", "new_dump"}
  /\ fs' = WriteFile(fs, TmpPath(frameOf[p].target), File(frameOf[p].data))
  /\ frameOf' = [frameOf EXCEPT ![p].pc =
                   IF frameOf[p].pc = "fill_dump" THEN "fill_replace" ELSE "new_replace"]
  /\ writes' = writes \cup {[by |-> p, path |-> TmpPath(frameOf[p].target)]}
  /\ UNCHANGED <<startMethod, procAt, jobs, outq, held, restOfWriter>>

\* lines 228 and 240: os.replace(tmp, target), then the head of the chunk loop
TmpReplace(p) ==
  /\ frameOf[p].pc \in {"fill_replace", "new_replace"}
  /\ fs' = OsReplace(fs, TmpPath(frameOf[p].target), frameOf[p].target)
  /\ frameOf' = [frameOf EXCEPT ![p] =
                   IF frameOf[p].pc = "fill_replace"
                     THEN LoopFrame(Remainder(frameOf[p].new_list, frameOf[p].space), 0,
                                    frameOf[p].target.n + 1)
                     ELSE LoopFrame(frameOf[p].new_list, frameOf[p].i + cap,
                                    frameOf[p].next_idx + 1)]
  /\ writes' = writes \cup {[by |-> p, path |-> frameOf[p].target]}
  /\ UNCHANGED <<startMethod, procAt, jobs, outq, held, restOfWriter>>

\* append_patents returns: line 302 empties the buffer, after line 306 main ends
AppendReturns(p) ==
  /\ procAt[p].at \in {"append", "final"}
  /\ frameOf[p].pc = "done"
  /\ frameOf' = [frameOf EXCEPT ![p] = IdleFrame]
  /\ procAt' = [procAt EXCEPT ![p] = IF procAt[p].at = "append" THEN At("loop") ELSE At("end")]
  /\ held' = [held EXCEPT ![p] = <<>>]
  /\ UNCHANGED <<fs, startMethod, jobs, outq, writes, restOfWriter>>

\* lines 304-306: every result is taken, the pool is left and its workers are
\* terminated; what the buffer still holds goes to append_patents
MainLeave(p) ==
  /\ procAt[p].at = "loop"
  /\ outq = <<>>
  /\ jobs = 0
  /\ \A w \in PoolWorkers : procAt[w].at # "busy"
  /\ procAt' = [q \in Procs |->
                  IF q = p THEN (IF held[p] # <<>> THEN At("final") ELSE At("end"))
                  ELSE IF procAt[q].at \in {"boot", "idle"} THEN At("gone") ELSE procAt[q]]
  /\ frameOf' = [frameOf EXCEPT ![p] =
                   IF held[p] # <<>> THEN EnterAppend(fs, held[p]) ELSE IdleFrame]
  /\ UNCHANGED <<fs, startMethod, jobs, outq, held, writes, restOfWriter>>

NextWriter ==
  \/ \E p \in Procs : PoolStart(p)
  \/ \E w \in PoolWorkers : WorkerBoot(w)
  \/ \E w \in PoolWorkers : WorkerTake(w)
  \/ \E w \in PoolWorkers, raised \in BOOLEAN : WorkerReturn(w, raised)
  \/ \E p \in Procs : MainTake(p)
  \/ \E p \in Procs : TmpOpen(p)
  \/ \E p \in Procs : TmpDump(p)
  \/ \E p \in Procs : TmpReplace(p)
  \/ \E p \in Procs : AppendReturns(p)
  \/ \E p \in Procs : MainLeave(p)

SpecWriter == InitWriter /\ [][NextWriter]_vars

\* C35: in stage 1 the chunk files have a single writer: every write and
\* rename in the output folder was made by the driver process, no pool worker
\* is ever inside append_patents, and at most one append_patents call is in
\* progress at any moment
C35_SingleWriter ==
  /\ \A w \in writes : w.by = Driver
  /\ \A p \in PoolWorkers : frameOf[p] = IdleFrame /\ held[p] = <<>>
  /\ Cardinality({p \in Procs : InCall(p)}) <= 1

\* the driver is about to rename a chunk it wrote while a spawned worker is
\* busy with a row and another result waits to be taken
C35_Witness ==
  /\ startMethod = "spawn"
  /\ frameOf[Driver].pc = "new_replace"
  /\ \E w \in PoolWorkers : procAt[w].at = "busy"
  /\ \E w \in PoolWorkers : procAt[w].at = "idle"
  /\ writes # {}

====
